---- MODULE Spec2Model ----
(***************************************************************************)
(* Model of the hlist2 crate: heterogenous lists built from Nil and Cons   *)
(* and the structural operations defined on them by trait recursion.       *)
(*                                                                         *)
(* A heterogenous list is modelled as the sequence of its elements: Nil is *)
(* the empty sequence and Cons(head, tail) puts head in front of tail.     *)
(* Every operation is an operator that recurses exactly as the trait       *)
(* implementations do (one case for Nil, one for Cons).  An operation that *)
(* has no implementation for a shape (a compile-time rejection) is         *)
(* modelled by a "Defined" predicate that guards the action calling it.    *)
(*                                                                         *)
(* The state is a client program's view: the list value it currently owns, *)
(* the log of the calls it has made with their arguments and results, and  *)
(* the draining iterator it holds.                                         *)
(***************************************************************************)
EXTENDS Integers, Sequences, FiniteSets, TLC

VARIABLES
    list,   \* the heterogenous list value the client currently owns
    log,    \* the calls made so far: [op, self, arg, ret]
    iter    \* the `prepared` field of the IntoIter the client holds

vars == <<list, log, iter>>

(***************************************************************************)
(* Bounds of the model.                                                    *)
(***************************************************************************)
MaxLen == 2        \* longest initial list of the append/prepend/pop programs
MaxOps == 2        \* calls per append/prepend/pop program
MaxFoldLen == 3    \* longest drawn list of the fold / rfold programs
MaxRun == 5        \* longest list 1, 2, ..., n of the fold / rfold programs
MaxSlots == 5      \* most slots of a list shape built by from_iter
MaxItems == 10     \* most elements a source iterator yields
MaxIterLen == 3    \* longest drawn list of the into_iter programs
MaxExtraNext == 2  \* calls of next after the iterator is drained
MaxLenCalls == 2   \* reads of the length while an iterator is drained
MaxZips == 1       \* calls of zip per zip / unzip program
MaxExtends == 1    \* calls of extend per extend program
MaxInnerLen == 2   \* longest inner list of the flatten programs
MaxOuterLen == 2   \* longest drawn list of lists of the flatten programs
MaxDepth == 3      \* deepest index drawn by the index programs
MaxArity == 13     \* most components of a tuple or list drawn for conversion
MaxBatchLen == 3   \* longest drawn list of the remove / remove_many / get_many programs

(***************************************************************************)
(* Element values.  Elements of different Rust types are tagged with their *)
(* type so that they can share a list: `v` is the numeric value (0/1 for a *)
(* bool), `s` the text of a string.                                        *)
(***************************************************************************)
I32(n)  == [ty |-> "i32",  v |-> n, s |-> ""]
F32(n)  == [ty |-> "f32",  v |-> n, s |-> ""]
Bool(b) == [ty |-> "bool", v |-> IF b THEN 1 ELSE 0, s |-> ""]
Str(t)  == [ty |-> "&str", v |-> 0, s |-> t]
String(t) == [ty |-> "String", v |-> 0, s |-> t]

Elems == {I32(1), F32(2), Bool(TRUE), Str("hello world")}

\* Elements that repeat a type with different values.
DupElems == {I32(1), I32(7), Bool(TRUE)}

Types == {e.ty : e \in Elems}
TypesOf(l) == [i \in DOMAIN l |-> l[i].ty]

(***************************************************************************)
(* Nil and Cons.                                                           *)
(***************************************************************************)
Nil == <<>>
Cons(head, tail) == <<head>> \o tail

\* All lists over S with at most n elements.
ListsUpTo(S, n) == UNION {[1..k -> S] : k \in 0..n}

(***************************************************************************)
(* HList::len and Len::LEN.  LEN belongs to a list shape, the sequence of  *)
(* the element types; len walks a value.  Nil answers with its LEN.        *)
(***************************************************************************)
RECURSIVE LEN(_)
LEN(Self) ==
    IF Self = Nil
    THEN 0
    ELSE 1 + LEN(Tail(Self))

\* Mutant: a Cons cell does not count itself.
RECURSIVE HList_len_of_tail(_)
HList_len_of_tail(self) ==
    IF self = Nil
    THEN LEN(Nil)
    ELSE HList_len_of_tail(Tail(self))

RECURSIVE HList_len(_)
HList_len(self) ==
    IF self = Nil
    THEN LEN(Nil)
    ELSE LET tail == Tail(self)
         IN  1 + HList_len(tail)

(***************************************************************************)
(* HList::is_empty: true for Nil, false for Cons.                          *)
(***************************************************************************)
\* Mutant: a list is empty when its tail is.
is_empty_with_tail(self) == IF self = Nil THEN TRUE ELSE Tail(self) = Nil

is_empty(self) == IF self = Nil THEN TRUE ELSE FALSE

(***************************************************************************)
(* Append: recurses to Nil, wraps the value there, rebuilds on the way up. *)
(***************************************************************************)
\* Mutant: the value is wrapped at the head instead of at the Nil end.
append_at_head(self, value) == Cons(value, self)

RECURSIVE append(_, _)
append(self, value) ==
    IF self = Nil
    THEN Cons(value, self)
    ELSE LET head == Head(self)
             tail == append(Tail(self), value)
         IN  Cons(head, tail)

(***************************************************************************)
(* Prepend: one Cons at the head, for every list.                          *)
(***************************************************************************)
prepend(self, value) == Cons(value, self)

(***************************************************************************)
(* Pop: Cons<Head, Nil> gives (head, nil); Cons<Head, Tail> pops the tail  *)
(* and prepends its own head to the tail's remainder.  The result is the   *)
(* pair (last element, remainder).  There is no implementation for Nil.    *)
(***************************************************************************)
PopDefined(self) == self # Nil

RECURSIVE pop(_)
pop(self) ==
    IF Tail(self) = Nil
    THEN <<Head(self), Tail(self)>>
    ELSE LET head == Head(self)
             r    == pop(Tail(self))
             elem == r[1]
             rest == prepend(r[2], head)
         IN  <<elem, rest>>

(***************************************************************************)
(* PopFront: (head, tail) of a Cons.  No implementation for Nil.           *)
(***************************************************************************)
PopFrontDefined(self) == self # Nil

\* Mutant: the head is returned but not taken out of the list.
pop_front_keeps_head(self) == <<Head(self), self>>

pop_front(self) == <<Head(self), Tail(self)>>

(***************************************************************************)
(* Index: Here points at the head, There<I> at what I points at in the     *)
(* tail.  A batch index (ManyIndex) is a list of indices.                  *)
(***************************************************************************)
Here == [tag |-> "Here"]
There(I) == [tag |-> "There", of |-> I]

(***************************************************************************)
(* Remove<T, I>: implemented for Cons<Head, Tail> with (Head, Here), and   *)
(* with (FromTail, There<TailIndex>) when Tail: Remove<FromTail,           *)
(* TailIndex>.  RemoveIndices(self, T) is the set of indices I for which   *)
(* the implementation Remove<T, I> exists for the shape of self (what      *)
(* inference can resolve the index to).                                    *)
(***************************************************************************)
RECURSIVE RemoveIndices(_, _)
RemoveIndices(self, T) ==
    IF self = Nil
    THEN {}
    ELSE (IF Head(self).ty = T THEN {Here} ELSE {})
            \cup {There(TailIndex) : TailIndex \in RemoveIndices(Tail(self), T)}

\* Mutant: the skipped head is dropped instead of being prepended again.
RECURSIVE remove_drops_head(_, _)
remove_drops_head(self, I) ==
    IF I = Here
    THEN <<Head(self), Tail(self)>>
    ELSE remove_drops_head(Tail(self), I.of)

RECURSIVE remove(_, _)
remove(self, I) ==
    IF I = Here
    THEN <<Head(self), Tail(self)>>
    ELSE LET head      == Head(self)
             r         == remove(Tail(self), I.of)
             removed   == r[1]
             remainder == prepend(r[2], head)
         IN  <<removed, remainder>>

(***************************************************************************)
(* ProvideOnce<T, I>: the same recursion as Remove.                        *)
(***************************************************************************)
RECURSIVE provide_once(_, _)
provide_once(self, I) ==
    IF I = Here
    THEN <<Head(self), Tail(self)>>
    ELSE LET head      == Head(self)
             r         == provide_once(Tail(self), I.of)
             value     == r[1]
             remainder == prepend(r[2], head)
         IN  <<value, remainder>>

(***************************************************************************)
(* RemoveMany<T, I>: (Nil, Nil) for every list; (Cons<OtherHead,           *)
(* OtherTail>, Cons<IndexHead, IndexTail>) for a Cons that removes         *)
(* OtherHead at IndexHead and whose remainder removes the rest.            *)
(* RemoveManyIndices(self, T) is the set of batch indices for which the    *)
(* implementation exists.                                                  *)
(***************************************************************************)
RECURSIVE RemoveManyIndices(_, _)
RemoveManyIndices(self, T) ==
    IF T = Nil
    THEN {Nil}
    ELSE UNION { { Cons(IndexHead, IndexTail) :
                     IndexTail \in RemoveManyIndices(remove(self, IndexHead)[2], Tail(T)) } :
                 IndexHead \in RemoveIndices(self, Head(T)) }

\* Mutant: the remainder is not threaded, every index is applied to the
\* original list.
RECURSIVE remove_many_from_original(_, _)
remove_many_from_original(self, I) ==
    IF I = Nil
    THEN <<Nil, self>>
    ELSE LET r == remove(self, Head(I))
             m == remove_many_from_original(self, Tail(I))
         IN  <<Cons(r[1], m[1]), m[2]>>

RECURSIVE remove_many(_, _)
remove_many(self, I) ==
    IF I = Nil
    THEN <<Nil, self>>
    ELSE LET r         == remove(self, Head(I))
             head      == r[1]
             m         == remove_many(r[2], Tail(I))
             tail      == m[1]
             remainder == m[2]
         IN  <<Cons(head, tail), remainder>>

(***************************************************************************)
(* Shuffle<T, I>: RemoveMany<T, I> whose Remainder is Nil.                 *)
(***************************************************************************)
ShuffleIndices(self, T) ==
    {I \in RemoveManyIndices(self, T) : remove_many(self, I)[2] = Nil}

\* Mutant: the list is returned in its own order.
shuffle_keeps_order(self, I) == self

shuffle(self, I) == remove_many(self, I)[1]

(***************************************************************************)
(* References.  A reference to an element of a borrowed list is modelled   *)
(* by the zero-based position `at` of the cell it points into, with the    *)
(* reference type as its type.                                             *)
(***************************************************************************)
Ref(ty, at)    == [ty |-> "&" \o ty, at |-> at]
RefMut(ty, at) == [ty |-> "&mut " \o ty, at |-> at]

RefTypes(T)    == [j \in DOMAIN T |-> "&" \o T[j]]
RefMutTypes(T) == [j \in DOMAIN T |-> "&mut " \o T[j]]

(***************************************************************************)
(* ToRef: Nil gives Nil; Cons gives the reference to its head in front of  *)
(* the references of its tail.  `at` is the position of the head of self   *)
(* in the borrowed list.                                                   *)
(***************************************************************************)
RECURSIVE to_ref_at(_, _)
to_ref_at(self, at) ==
    IF self = Nil
    THEN Nil
    ELSE LET head == Ref(Head(self).ty, at)
             tail == to_ref_at(Tail(self), at + 1)
         IN  Cons(head, tail)

to_ref(self) == to_ref_at(self, 0)

RECURSIVE to_mut_at(_, _)
to_mut_at(self, at) ==
    IF self = Nil
    THEN Nil
    ELSE LET head == RefMut(Head(self).ty, at)
             tail == to_mut_at(Tail(self), at + 1)
         IN  Cons(head, tail)

to_mut(self) == to_mut_at(self, 0)

\* The element a reference points at.
Deref(self, r) == self[r.at + 1]

(***************************************************************************)
(* GetMany<T, I>: implemented when the list of references and the list of  *)
(* mutable references both implement RemoveMany for the references of T.   *)
(***************************************************************************)
GetManyIndices(self, T) ==
    RemoveManyIndices(to_ref(self), RefTypes(T))
        \cap RemoveManyIndices(to_mut(self), RefMutTypes(T))

\* Mutant: the first references of the list are returned, in source order.
get_many_in_source_order(self, I) == SubSeq(to_ref(self), 1, Len(I))

get_many(self, I) ==
    LET refs == to_ref(self)
        many == remove_many(refs, I)[1]
    IN  many

get_many_mut(self, I) ==
    LET muts     == to_mut(self)
        many_mut == remove_many(muts, I)[1]
    IN  many_mut

(***************************************************************************)
(* Folders.  A closure is a record of its name and of the state it has     *)
(* captured (`n`, the number of calls a counting closure has seen); a      *)
(* folder is a closure, a heterogenous list of closures (`fns`), or the    *)
(* Folder wrapper around a FoldFn implementation.                          *)
(***************************************************************************)
Closure(name)  == [kind |-> "closure", fn |-> name, n |-> 0, fns |-> <<>>]
FnList(fs)     == [kind |-> "hlist", fn |-> "", n |-> 0, fns |-> fs]
Folder(name)   == [kind |-> "Folder", fn |-> name, n |-> 0, fns |-> <<>>]

\* The closures of the doc-tests, and one closure that counts its calls.
\*   add_i32 : |acc, i| i as f32 + acc
\*   cond    : |acc, b: bool| if !b && acc > 42.0 { 9000.0 } else { 0.0 }
\*   add_f32 : |acc, f| f + acc
\*   sum     : |acc, x| acc + x
\*   fmt     : |acc, x| format!("({x} + {acc})")
\*   weigh   : |acc, x| { n += 1; acc + n * x }
ClosureNames == {"add_i32", "cond", "add_f32", "sum", "fmt", "weigh"}

\* The accumulator type and the item type a closure is written for.
AccType(name) ==
    CASE name \in {"add_i32", "cond", "add_f32"} -> "f32"
      [] name \in {"sum", "weigh"}               -> "i32"
      [] name = "fmt"                            -> "String"

ItemType(name) ==
    CASE name \in {"add_i32", "sum", "fmt", "weigh"} -> "i32"
      [] name = "cond"                               -> "bool"
      [] name = "add_f32"                            -> "f32"

\* One call of a closure: the new accumulator and the closure after the call.
call(f, acc, item) ==
    CASE f.fn = "add_i32" -> <<F32(item.v + acc.v), f>>
      [] f.fn = "cond"    -> <<F32(IF item.v = 0 /\ acc.v > 42 THEN 9000 ELSE 0), f>>
      [] f.fn = "add_f32" -> <<F32(item.v + acc.v), f>>
      [] f.fn = "sum"     -> <<I32(acc.v + item.v), f>>
      [] f.fn = "fmt"     -> <<String("(" \o ToString(item.v) \o " + " \o acc.s \o ")"), f>>
      [] f.fn = "weigh"   -> <<I32(acc.v + (f.n + 1) * item.v), [f EXCEPT !.n = @ + 1]>>

\* MyFoldFn of the doc-tests: FoldFn<f32, i32>, FoldFn<f32, bool> and
\* FoldFn<f32, f32>; Folder<F> forwards to F.
FoldFnItems == {"i32", "bool", "f32"}

fold_fn(folder, accumulator, item) ==
    CASE item.ty = "i32"  -> <<F32(item.v + accumulator.v), folder>>
      [] item.ty = "bool" -> <<F32(IF item.v = 0 /\ accumulator.v > 42 THEN 9000 ELSE 0), folder>>
      [] item.ty = "f32"  -> <<F32(item.v + accumulator.v), folder>>

\* F: FnMut(A, Head) -> A, and FnOnce(A, Head) -> A.
Accepts(f, A, Head_ty) == f.kind = "closure" /\ AccType(f.fn) = A /\ ItemType(f.fn) = Head_ty

(***************************************************************************)
(* Fold<A, F>: for Nil, with any folder; for Cons with a closure, with a   *)
(* Cons of closures, and with Folder<F>.  FoldDefined tells whether the    *)
(* implementation exists.                                                  *)
(***************************************************************************)
RECURSIVE FoldDefined(_, _, _)
FoldDefined(self, A, folder) ==
    IF self = Nil
    THEN TRUE
    ELSE CASE folder.kind = "closure" ->
                /\ Accepts(folder, A, Head(self).ty)
                /\ FoldDefined(Tail(self), A, folder)
           [] folder.kind = "hlist" ->
                /\ folder.fns # Nil
                /\ Accepts(Head(folder.fns), A, Head(self).ty)
                /\ FoldDefined(Tail(self), A, FnList(Tail(folder.fns)))
           [] folder.kind = "Folder" ->
                /\ A = "f32" /\ Head(self).ty \in FoldFnItems
                /\ FoldDefined(Tail(self), A, folder)

\* Mutant: the tail is folded first and the head is applied last.
RECURSIVE fold_from_the_back(_, _, _)
fold_from_the_back(self, init, folder) ==
    IF self = Nil
    THEN init
    ELSE CASE folder.kind = "closure" ->
                LET acc == fold_from_the_back(Tail(self), init, folder)
                IN  call(folder, acc, Head(self))[1]
           [] folder.kind = "hlist" ->
                LET acc == fold_from_the_back(Tail(self), init, FnList(Tail(folder.fns)))
                IN  call(Head(folder.fns), acc, Head(self))[1]
           [] folder.kind = "Folder" ->
                LET acc == fold_from_the_back(Tail(self), init, folder)
                IN  fold_fn(folder, acc, Head(self))[1]

RECURSIVE fold(_, _, _)
fold(self, init, folder) ==
    IF self = Nil
    THEN init
    ELSE LET head == Head(self)
             tail == Tail(self)
         IN  CASE folder.kind = "closure" ->
                    LET r == call(folder, init, head)
                    IN  fold(tail, r[1], r[2])
               [] folder.kind = "hlist" ->
                    LET folder_head == Head(folder.fns)
                        folder_tail == FnList(Tail(folder.fns))
                        r           == call(folder_head, init, head)
                    IN  fold(tail, r[1], folder_tail)
               [] folder.kind = "Folder" ->
                    LET r == fold_fn(folder, init, head)
                    IN  fold(tail, r[1], r[2])

(***************************************************************************)
(* RFold<A, F>: for Nil, with any folder; for Cons with a closure or a     *)
(* Folder<F> through rfold_with_folder, which hands the folder back with   *)
(* the accumulator; for Cons with a Cons of closures by recursion on both. *)
(***************************************************************************)
RECURSIVE RFoldWithFolderDefined(_, _, _)
RFoldWithFolderDefined(self, A, folder) ==
    IF self = Nil
    THEN TRUE
    ELSE CASE folder.kind = "closure" ->
                /\ Accepts(folder, A, Head(self).ty)
                /\ RFoldWithFolderDefined(Tail(self), A, folder)
           [] folder.kind = "hlist" -> FALSE
           [] folder.kind = "Folder" ->
                /\ A = "f32" /\ Head(self).ty \in FoldFnItems
                /\ RFoldWithFolderDefined(Tail(self), A, folder)

RECURSIVE RFoldDefined(_, _, _)
RFoldDefined(self, A, folder) ==
    IF self = Nil
    THEN TRUE
    ELSE CASE folder.kind = "closure" ->
                /\ Accepts(folder, A, Head(self).ty)
                /\ RFoldWithFolderDefined(Tail(self), A, folder)
           [] folder.kind = "hlist" ->
                /\ folder.fns # Nil
                /\ Accepts(Head(folder.fns), A, Head(self).ty)
                /\ RFoldDefined(Tail(self), A, FnList(Tail(folder.fns)))
           [] folder.kind = "Folder" ->
                /\ A = "f32" /\ Head(self).ty \in FoldFnItems
                /\ RFoldWithFolderDefined(Tail(self), A, folder)

\* Mutant: the folder handed back is the one given, not the one that ran.
RECURSIVE rfold_with_folder_given_back(_, _, _)
rfold_with_folder_given_back(self, init, folder) ==
    IF self = Nil
    THEN <<init, folder>>
    ELSE LET head == Head(self)
             r    == rfold_with_folder_given_back(Tail(self), init, folder)
         IN  IF folder.kind = "Folder"
             THEN <<fold_fn(r[2], r[1], head)[1], folder>>
             ELSE <<call(r[2], r[1], head)[1], folder>>

RECURSIVE rfold_with_folder(_, _, _)
rfold_with_folder(self, init, folder) ==
    IF self = Nil
    THEN <<init, folder>>
    ELSE LET head == Head(self)
             r    == rfold_with_folder(Tail(self), init, folder)
         IN  IF folder.kind = "Folder"
             THEN fold_fn(r[2], r[1], head)
             ELSE call(r[2], r[1], head)

\* Mutant: the head is applied first and the tail is folded after it.
RECURSIVE rfold_from_the_front(_, _, _)
rfold_from_the_front(self, init, folder) ==
    IF self = Nil
    THEN init
    ELSE CASE folder.kind = "closure" ->
                LET r == call(folder, init, Head(self))
                IN  rfold_from_the_front(Tail(self), r[1], r[2])
           [] folder.kind = "hlist" ->
                LET r == call(Head(folder.fns), init, Head(self))
                IN  rfold_from_the_front(Tail(self), r[1], FnList(Tail(folder.fns)))
           [] folder.kind = "Folder" ->
                LET r == fold_fn(folder, init, Head(self))
                IN  rfold_from_the_front(Tail(self), r[1], r[2])

RECURSIVE rfold(_, _, _)
rfold(self, init, folder) ==
    IF self = Nil
    THEN init
    ELSE LET head == Head(self)
             tail == Tail(self)
         IN  CASE folder.kind = "closure" ->
                    LET r == rfold_with_folder(tail, init, folder)
                    IN  call(r[2], r[1], head)[1]
               [] folder.kind = "hlist" ->
                    LET folder_head == Head(folder.fns)
                        folder_tail == FnList(Tail(folder.fns))
                        acc         == rfold(tail, init, folder_tail)
                    IN  call(folder_head, acc, head)[1]
               [] folder.kind = "Folder" ->
                    LET r == rfold_with_folder(tail, init, folder)
                    IN  fold_fn(r[2], r[1], head)[1]

(***************************************************************************)
(* The invocations of one shared folder, a closure or a Folder<F>, in the  *)
(* order the implementations make them: the folder as it is when invoked,  *)
(* the accumulator and the item it is given.                               *)
(***************************************************************************)
Invocation(folder, accumulator, item) ==
    [folder |-> folder, accumulator |-> accumulator, item |-> item]

\* fold: folder(init, head), then tail.fold(init, folder).
RECURSIVE fold_invocations(_, _, _)
fold_invocations(self, init, folder) ==
    IF self = Nil
    THEN <<>>
    ELSE LET head == Head(self)
             r    == IF folder.kind = "Folder"
                     THEN fold_fn(folder, init, head)
                     ELSE call(folder, init, head)
         IN  <<Invocation(folder, init, head)>> \o fold_invocations(Tail(self), r[1], r[2])

\* rfold and rfold_with_folder: tail.rfold_with_folder(init, folder), then
\* folder(init, head) with what it handed back.
RECURSIVE rfold_invocations(_, _, _)
rfold_invocations(self, init, folder) ==
    IF self = Nil
    THEN <<>>
    ELSE LET head == Head(self)
             r    == rfold_with_folder(Tail(self), init, folder)
         IN  rfold_invocations(Tail(self), init, folder) \o <<Invocation(r[2], r[1], head)>>

(***************************************************************************)
(* Mappers.  A mapper is a closure, a heterogenous list of closures, or    *)
(* the Mapper wrapper around a MapFn implementation.                       *)
(***************************************************************************)
Mapper(name) == [kind |-> "Mapper", fn |-> name, n |-> 0, fns |-> <<>>]

\* The closures of the doc-tests, and one closure that counts its calls.
\*   double : |x| 2 * x
\*   add2   : |i| i + 2
\*   sub2   : |f| f - 2.0
\*   not    : |b: bool| !b
\*   number : |x| { n += 1; 10 * n + x }
MapClosureNames == {"double", "add2", "sub2", "not", "number"}

\* The input type a closure is written for.
InputType(name) ==
    CASE name \in {"double", "add2", "number"} -> "i32"
      [] name = "sub2"                         -> "f32"
      [] name = "not"                          -> "bool"

\* One call of a closure: the output and the closure after the call.
map_call(f, input) ==
    CASE f.fn = "double" -> <<I32(2 * input.v), f>>
      [] f.fn = "add2"   -> <<I32(input.v + 2), f>>
      [] f.fn = "sub2"   -> <<F32(input.v - 2), f>>
      [] f.fn = "not"    -> <<Bool(input.v = 0), f>>
      [] f.fn = "number" -> <<I32(10 * (f.n + 1) + input.v), [f EXCEPT !.n = @ + 1]>>

\* MyMapFn of the doc-tests: MapFn<i32>, MapFn<f32> and MapFn<bool>;
\* Mapper<F> forwards to F.
MapFnInputs == {"i32", "f32", "bool"}

map_fn(mapper, input) ==
    CASE input.ty = "i32"  -> <<I32(input.v + 3), mapper>>
      [] input.ty = "f32"  -> <<F32(input.v + 8959), mapper>>
      [] input.ty = "bool" -> <<Bool(input.v = 0), mapper>>

\* M: FnMut(Head) -> R, and FnOnce(Head) -> R.
Takes(f, Head_ty) == f.kind = "closure" /\ InputType(f.fn) = Head_ty

(***************************************************************************)
(* Map<M>: for Nil, with any mapper; for Cons with a closure, with a Cons  *)
(* of closures, and with Mapper<M>.  MapDefined tells whether the          *)
(* implementation exists.                                                  *)
(***************************************************************************)
\* Mutant: a function list that has run out still maps the rest of the data.
RECURSIVE MapDefined_past_the_functions(_, _)
MapDefined_past_the_functions(self, mapper) ==
    IF self = Nil
    THEN TRUE
    ELSE CASE mapper.kind = "closure" ->
                /\ Takes(mapper, Head(self).ty)
                /\ MapDefined_past_the_functions(Tail(self), mapper)
           [] mapper.kind = "hlist" ->
                \/ mapper.fns = Nil
                \/ /\ mapper.fns # Nil
                   /\ Takes(Head(mapper.fns), Head(self).ty)
                   /\ MapDefined_past_the_functions(Tail(self), FnList(Tail(mapper.fns)))
           [] mapper.kind = "Mapper" ->
                /\ Head(self).ty \in MapFnInputs
                /\ MapDefined_past_the_functions(Tail(self), mapper)

RECURSIVE MapDefined(_, _)
MapDefined(self, mapper) ==
    IF self = Nil
    THEN TRUE
    ELSE CASE mapper.kind = "closure" ->
                /\ Takes(mapper, Head(self).ty)
                /\ MapDefined(Tail(self), mapper)
           [] mapper.kind = "hlist" ->
                /\ mapper.fns # Nil
                /\ Takes(Head(mapper.fns), Head(self).ty)
                /\ MapDefined(Tail(self), FnList(Tail(mapper.fns)))
           [] mapper.kind = "Mapper" ->
                /\ Head(self).ty \in MapFnInputs
                /\ MapDefined(Tail(self), mapper)

\* Mutant: the tail is mapped first, and the head with the mapper it leaves.
RECURSIVE map_tail_first_with_mapper(_, _)
map_tail_first_with_mapper(self, mapper) ==
    IF self = Nil
    THEN <<Nil, mapper>>
    ELSE CASE mapper.kind = "closure" ->
                LET t == map_tail_first_with_mapper(Tail(self), mapper)
                    r == map_call(t[2], Head(self))
                IN  <<Cons(r[1], t[1]), r[2]>>
           [] mapper.kind = "hlist" ->
                LET t == map_tail_first_with_mapper(Tail(self), FnList(Tail(mapper.fns)))
                    r == map_call(Head(mapper.fns), Head(self))
                IN  <<Cons(r[1], t[1]), t[2]>>
           [] mapper.kind = "Mapper" ->
                LET t == map_tail_first_with_mapper(Tail(self), mapper)
                    r == map_fn(t[2], Head(self))
                IN  <<Cons(r[1], t[1]), r[2]>>

map_tail_first(self, mapper) == map_tail_first_with_mapper(self, mapper)[1]

\* The output list.
RECURSIVE map(_, _)
map(self, mapper) ==
    IF self = Nil
    THEN self
    ELSE LET head == Head(self)
             tail == Tail(self)
         IN  CASE mapper.kind = "closure" ->
                    LET r == map_call(mapper, head)
                    IN  Cons(r[1], map(tail, r[2]))
               [] mapper.kind = "hlist" ->
                    LET mapper_head == Head(mapper.fns)
                        mapper_tail == FnList(Tail(mapper.fns))
                        r           == map_call(mapper_head, head)
                    IN  Cons(r[1], map(tail, mapper_tail))
               [] mapper.kind = "Mapper" ->
                    LET r == map_fn(mapper, head)
                    IN  Cons(r[1], map(tail, r[2]))

(***************************************************************************)
(* Dec: There<T> decrements to T.                                          *)
(***************************************************************************)
dec(self) == self.of

\* A reference found in the tail of a list, seen from the list: the place
\* it points at lies one cell further.
InTail(r) == [r EXCEPT !.at = @ + 1]

(***************************************************************************)
(* Get<T, I>: implemented for Cons<Head, Tail> with (Head, Here), and with *)
(* (FromTail, There<TailIndex>) when Tail: Get<FromTail, TailIndex>.  get  *)
(* gives the reference to the head, or what the tail gives.                *)
(***************************************************************************)
RECURSIVE GetIndices(_, _)
GetIndices(self, T) ==
    IF self = Nil
    THEN {}
    ELSE (IF Head(self).ty = T THEN {Here} ELSE {})
            \cup {There(TailIndex) : TailIndex \in GetIndices(Tail(self), T)}

RECURSIVE get(_, _)
get(self, I) ==
    IF I = Here
    THEN Ref(Head(self).ty, 0)
    ELSE InTail(get(Tail(self), I.of))

RECURSIVE get_mut(_, _)
get_mut(self, I) ==
    IF I = Here
    THEN RefMut(Head(self).ty, 0)
    ELSE InTail(get_mut(Tail(self), I.of))

(***************************************************************************)
(* Provide<T, I>: the same two implementations, with I: Index.             *)
(***************************************************************************)
RECURSIVE ProvideIndices(_, _)
ProvideIndices(self, T) ==
    IF self = Nil
    THEN {}
    ELSE (IF Head(self).ty = T THEN {Here} ELSE {})
            \cup {There(TailIndex) : TailIndex \in ProvideIndices(Tail(self), T)}

\* Mutant: what the tail provides is taken for a place of the list itself.
RECURSIVE provide_place_of_tail(_, _)
provide_place_of_tail(self, I) ==
    IF I = Here
    THEN Ref(Head(self).ty, 0)
    ELSE provide_place_of_tail(Tail(self), I.of)

RECURSIVE provide(_, _)
provide(self, I) ==
    IF I = Here
    THEN Ref(Head(self).ty, 0)
    ELSE InTail(provide(Tail(self), I.of))

RECURSIVE provide_mut(_, _)
provide_mut(self, I) ==
    IF I = Here
    THEN RefMut(Head(self).ty, 0)
    ELSE InTail(provide_mut(Tail(self), I.of))

(***************************************************************************)
(* core::ops::Index and IndexMut: implemented for Cons with Here, and with *)
(* There<TailIndex> when the tail is indexed by TailIndex; the index is    *)
(* decremented on the way to the tail.                                     *)
(***************************************************************************)
RECURSIVE IndexIndices(_)
IndexIndices(self) ==
    IF self = Nil
    THEN {}
    ELSE {Here} \cup {There(TailIndex) : TailIndex \in IndexIndices(Tail(self))}

RECURSIVE index(_, _)
index(self, index_) ==
    IF index_ = Here
    THEN Ref(Head(self).ty, 0)
    ELSE LET tail == Tail(self)
             i    == dec(index_)
         IN  InTail(index(tail, i))

\* Mutant: the index is decremented twice on the way to the tail, stopping
\* at Here.
RECURSIVE index_mut_skips(_, _)
index_mut_skips(self, index_) ==
    IF index_ = Here
    THEN RefMut(Head(self).ty, 0)
    ELSE LET i == dec(index_)
         IN  InTail(index_mut_skips(Tail(self), IF i = Here THEN i ELSE dec(i)))

RECURSIVE index_mut(_, _)
index_mut(self, index_) ==
    IF index_ = Here
    THEN RefMut(Head(self).ty, 0)
    ELSE LET tail == Tail(self)
             i    == dec(index_)
         IN  InTail(index_mut(tail, i))

(***************************************************************************)
(* Tuples and the conversions between tuples and lists.  The macros        *)
(* hlist_from_tuple! and tuple_from_hlist! are invoked for 12 type names   *)
(* down to none, so the implementations exist for those arities only.  The *)
(* conversions take the value apart by pattern and rebuild it with the     *)
(* names in the same order.                                                *)
(***************************************************************************)
TupleValue(items) == [ty |-> "tuple", items |-> items]

\* A, B, C, D, E, F, G, H, I, J, K, L
TypeNames == 12

Arities == 0..TypeNames

\* The macro hlist!: Cons cells around the expressions, Nil at the end.
RECURSIVE hlist(_)
hlist(items) ==
    IF items = <<>>
    THEN Nil
    ELSE Cons(Head(items), hlist(Tail(items)))

\* The pattern hlist!(A, B, ...): the values bound to the names, in order.
RECURSIVE hlist_pattern(_)
hlist_pattern(value) ==
    IF value = Nil
    THEN <<>>
    ELSE <<Head(value)>> \o hlist_pattern(Tail(value))

\* From<(A, B, ...)> for HList!(A, B, ...)
HListFromTupleDefined(value) == Len(value.items) \in Arities

hlist_from_tuple(value) == hlist(value.items)

\* From<HList!(A, B, ...)> for (A, B, ...)
TupleFromHListDefined(value) == LEN(TypesOf(value)) \in Arities

\* Mutant: the names are put in the tuple last to first.
tuple_from_hlist_backwards(value) ==
    LET names == hlist_pattern(value)
    IN  TupleValue([i \in DOMAIN names |-> names[Len(names) + 1 - i]])

tuple_from_hlist(value) == TupleValue(hlist_pattern(value))

\* IntoHList for Self, a list type (the list itself) or a tuple type (by Into).
IntoHListDefined(Self, self) ==
    IF Self = "tuple" THEN HListFromTupleDefined(self) ELSE TRUE

into_hlist(Self, self) == IF Self = "tuple" THEN hlist_from_tuple(self) ELSE self

\* IntoTuple for Self, a tuple type (the tuple itself) or a list type (by Into).
IntoTupleDefined(Self, self) ==
    IF Self = "tuple" THEN Len(self.items) \in Arities ELSE TupleFromHListDefined(self)

into_tuple(Self, self) == IF Self = "tuple" THEN self ELSE tuple_from_hlist(self)

\* FromHList for Self, a tuple type (by From) or a list type (the list itself).
FromHListDefined(Self, hlist_) ==
    IF Self = "tuple" THEN TupleFromHListDefined(hlist_) ELSE TRUE

from_hlist(Self, hlist_) == IF Self = "tuple" THEN tuple_from_hlist(hlist_) ELSE hlist_

(***************************************************************************)
(* Reverse: rewind walks the list and puts each element it visits in front *)
(* of the list `done`, which starts as Nil; at Nil the answer is `done`.   *)
(***************************************************************************)
\* Mutant: the visited element is put behind `done`.
RECURSIVE rewind_behind_done(_, _)
rewind_behind_done(self, done) ==
    IF self = Nil
    THEN done
    ELSE rewind_behind_done(Tail(self), done \o <<Head(self)>>)

RECURSIVE rewind(_, _)
rewind(self, done) ==
    IF self = Nil
    THEN done
    ELSE LET next_ == Head(self)
             tail  == Tail(self)
         IN  rewind(tail, Cons(next_, done))

\* One activation of rewind for Cons: the list and the `done` it calls rewind
\* of the tail with.
\* Mutant: the visited element is left out of `done`.
rewind_call_drops_next(self, done) == <<Tail(self), done>>

rewind_call(self, done) ==
    LET next_ == Head(self)
        tail  == Tail(self)
    IN  <<tail, Cons(next_, done)>>

\* Mutant: the walk starts at the tail.
reverse_from_tail(self) == IF self = Nil THEN Nil ELSE rewind(Tail(self), Nil)

reverse(self) == rewind(self, Nil)

(***************************************************************************)
(* Pairs.  A 2-tuple is a value of its own type holding its two parts;     *)
(* destruct gives the parts back.                                          *)
(***************************************************************************)
Tuple2(first, second) ==
    [ty |-> "(" \o first.ty \o ", " \o second.ty \o ")", first |-> first, second |-> second]

IsPair(x) == "first" \in DOMAIN x /\ "second" \in DOMAIN x

destruct(self) == <<self.first, self.second>>

(***************************************************************************)
(* Zip: implemented for Nil with Nil and for Cons with Cons whose tails    *)
(* zip; each cell of the result pairs the two heads.                       *)
(***************************************************************************)
RECURSIVE ZipDefined(_, _)
ZipDefined(self, other) ==
    IF self = Nil
    THEN other = Nil
    ELSE other # Nil /\ ZipDefined(Tail(self), Tail(other))

\* Mutant: the head of the other list comes first in the pair.
RECURSIVE zip_other_first(_, _)
zip_other_first(self, other) ==
    IF self = Nil
    THEN self
    ELSE Cons(Tuple2(Head(other), Head(self)), zip_other_first(Tail(self), Tail(other)))

RECURSIVE zip(_, _)
zip(self, other) ==
    IF self = Nil
    THEN self
    ELSE LET head   == Head(self)
             tail   == Tail(self)
             o_head == Head(other)
             o_tail == Tail(other)
         IN  Cons(Tuple2(head, o_head), zip(tail, o_tail))

(***************************************************************************)
(* Unzip: implemented for Nil and for Cons whose head is a pair and whose  *)
(* tail unzips; the firsts and the seconds are collected in two lists.     *)
(***************************************************************************)
RECURSIVE UnzipDefined(_)
UnzipDefined(self) ==
    IF self = Nil
    THEN TRUE
    ELSE IsPair(Head(self)) /\ UnzipDefined(Tail(self))

\* Mutant: the two result lists are built the wrong way round below the head.
RECURSIVE unzip_tails_crossed(_)
unzip_tails_crossed(self) ==
    IF self = Nil
    THEN <<self, self>>
    ELSE LET h == destruct(Head(self))
             t == unzip_tails_crossed(Tail(self))
         IN  <<Cons(h[1], t[2]), Cons(h[2], t[1])>>

RECURSIVE unzip(_)
unzip(self) ==
    IF self = Nil
    THEN <<self, self>>
    ELSE LET head   == Head(self)
             tail   == Tail(self)
             h      == destruct(head)
             t      == unzip(tail)
             first  == Cons(h[1], t[1])
             second == Cons(h[2], t[2])
         IN  <<first, second>>

(***************************************************************************)
(* Extend: Nil answers with the other list; Cons keeps its head and        *)
(* extends its tail.                                                       *)
(***************************************************************************)
\* Mutant: the other list is put in front.
extend_in_front(self, list_) == list_ \o self

RECURSIVE extend(_, _)
extend(self, list_) ==
    IF self = Nil
    THEN list_
    ELSE LET head == Head(self)
             tail == extend(Tail(self), list_)
         IN  Cons(head, tail)

(***************************************************************************)
(* Flatten.  An element that is itself a heterogenous list is a value of   *)
(* type HList holding that list.  Flatten is implemented for Nil and for   *)
(* Cons whose head is a list (it implements Extend) and whose tail         *)
(* flattens: the head is extended with the flattened tail.                 *)
(***************************************************************************)
HListElem(l) == [ty |-> "HList", list |-> l]

IsHList(x) == "list" \in DOMAIN x

RECURSIVE FlattenDefined(_)
FlattenDefined(self) ==
    IF self = Nil
    THEN TRUE
    ELSE IsHList(Head(self)) /\ FlattenDefined(Tail(self))

\* Mutant: the lists found inside the head are opened as well.
RECURSIVE flatten_deep(_)
flatten_deep(self) ==
    IF self = Nil
    THEN self
    ELSE LET head == Head(self).list
             tail == flatten_deep(Tail(self))
         IN  IF FlattenDefined(head)
             THEN extend(flatten_deep(head), tail)
             ELSE extend(head, tail)

RECURSIVE flatten(_)
flatten(self) ==
    IF self = Nil
    THEN self
    ELSE LET head == Head(self).list
             tail == flatten(Tail(self))
         IN  extend(head, tail)

(***************************************************************************)
(* Option.                                                                 *)
(***************************************************************************)
Some(x) == [some |-> TRUE, val |-> x]
None == [some |-> FALSE]

\* Option::take: the value that was there, and None left in its place.
take(opt) == <<opt, None>>

(***************************************************************************)
(* Inc: every index I increments to There<I>.  Dec is implemented for      *)
(* There<T> only.                                                          *)
(***************************************************************************)
inc(self) == There(self)

DecDefined(self) == self.tag = "There"

(***************************************************************************)
(* Add: Here + T is T; There<U> + T is There<U + T>.                       *)
(***************************************************************************)
\* Mutant: There<U> + T is U + T.
RECURSIVE add_drops_there(_, _)
add_drops_there(self, rhs) ==
    IF self = Here
    THEN rhs
    ELSE add_drops_there(self.of, rhs)

RECURSIVE add(_, _)
add(self, rhs) ==
    IF self = Here
    THEN rhs
    ELSE There(add(self.of, rhs))

(***************************************************************************)
(* Sub: implemented for Here - Here, for There<T> - Here, and for          *)
(* There<U> - There<T> when U - T is; the last decrements both sides.      *)
(***************************************************************************)
RECURSIVE SubDefined(_, _)
SubDefined(self, rhs) ==
    IF rhs = Here
    THEN TRUE
    ELSE IF self = Here
         THEN FALSE
         ELSE SubDefined(self.of, rhs.of)

RECURSIVE sub(_, _)
sub(self, rhs) ==
    IF rhs = Here
    THEN IF self = Here THEN rhs ELSE There(self.of)
    ELSE sub(dec(self), dec(rhs))

(***************************************************************************)
(* Comparison of indices.  Between Here and There the answer is fixed;     *)
(* between There<U> and There<T> both sides are decremented.  Here with    *)
(* Here is the derived comparison of a unit struct, and There<T> with      *)
(* itself compares the phantom markers, which are always equal.            *)
(***************************************************************************)
Less    == "Less"
Equal   == "Equal"
Greater == "Greater"

Here_eq(self, other) == TRUE
Here_partial_cmp(self, other) == Some(Equal)

There_eq(self, other) == TRUE
There_partial_cmp(self, other) == Some(Equal)

RECURSIVE eq(_, _)
eq(self, other) ==
    CASE self = Here /\ other = Here -> Here_eq(self, other)
      [] self = Here /\ other # Here -> FALSE
      [] self # Here /\ other = Here -> FALSE
      [] OTHER                       -> eq(dec(self), dec(other))

\* Mutant: Here is Greater than There<T> and There<T> is Less than Here.
RECURSIVE partial_cmp_here_last(_, _)
partial_cmp_here_last(self, other) ==
    CASE self = Here /\ other = Here -> Some(Equal)
      [] self = Here /\ other # Here -> Some(Greater)
      [] self # Here /\ other = Here -> Some(Less)
      [] OTHER                       -> partial_cmp_here_last(self.of, other.of)

RECURSIVE partial_cmp(_, _)
partial_cmp(self, other) ==
    CASE self = Here /\ other = Here -> Here_partial_cmp(self, other)
      [] self = Here /\ other # Here -> Some(Less)
      [] self # Here /\ other = Here -> Some(Greater)
      [] OTHER                       ->
            LET this   == dec(self)
                other_ == dec(other)
            IN  partial_cmp(this, other_)

(***************************************************************************)
(* FromIterator.  A source iterator is the sequence of the elements it has *)
(* yet to yield; a list shape is its number of Cons cells.  The result is  *)
(* the list, or the panic message, with what is left of the source.        *)
(***************************************************************************)
iter_next(it) == IF it = <<>> THEN <<None, it>> ELSE <<Some(Head(it)), Tail(it)>>

Built(l, rest)   == [panic |-> "", list |-> l, rest |-> rest]
Panic(msg, rest) == [panic |-> msg, list |-> Nil, rest |-> rest]

\* Mutant: the Nil case does not look at what is left of the iterator.
RECURSIVE from_iter_ignores_rest(_, _)
from_iter_ignores_rest(Self, it) ==
    IF Self = 0
    THEN Built(Nil, it)
    ELSE LET r == iter_next(it)
         IN  IF ~r[1].some
             THEN Panic("not enough elements in the iterator", r[2])
             ELSE LET from_iter_tail == from_iter_ignores_rest(Self - 1, r[2])
                  IN  IF from_iter_tail.panic # ""
                      THEN from_iter_tail
                      ELSE Built(Cons(r[1].val, from_iter_tail.list), from_iter_tail.rest)

\* Mutant: the Nil case runs the iterator to its end before it panics.
RECURSIVE from_iter_drains_source(_, _)
from_iter_drains_source(Self, it) ==
    LET r == iter_next(it)
    IN  IF Self = 0
        THEN IF r[1].some
             THEN Panic("too many elements in the iterator", <<>>)
             ELSE Built(Nil, r[2])
        ELSE IF ~r[1].some
             THEN Panic("not enough elements in the iterator", r[2])
             ELSE LET head          == r[1].val
                      from_iter_tail == from_iter_drains_source(Self - 1, r[2])
                  IN  IF from_iter_tail.panic # ""
                      THEN from_iter_tail
                      ELSE Built(Cons(head, from_iter_tail.list), from_iter_tail.rest)

RECURSIVE from_iter(_, _)
from_iter(Self, it) ==
    LET r == iter_next(it)
    IN  IF Self = 0
        THEN IF r[1].some
             THEN Panic("too many elements in the iterator", r[2])
             ELSE Built(Nil, r[2])
        ELSE IF ~r[1].some
             THEN Panic("not enough elements in the iterator", r[2])
             ELSE LET head          == r[1].val
                      from_iter_tail == from_iter(Self - 1, r[2])
                  IN  IF from_iter_tail.panic # ""
                      THEN from_iter_tail
                      ELSE Built(Cons(head, from_iter_tail.list), from_iter_tail.rest)

(***************************************************************************)
(* PrepareIter: every element is wrapped in Some.  Implemented for         *)
(* Cons<Head, Nil> and for Cons<Head, Tail> whose tail yields Head items:  *)
(* not for Nil, and only for lists of one element type.                    *)
(***************************************************************************)
RECURSIVE PrepareIterDefined(_)
PrepareIterDefined(self) ==
    /\ self # Nil
    /\ \/ Tail(self) = Nil
       \/ /\ PrepareIterDefined(Tail(self))
          /\ Head(Tail(self)).ty = Head(self).ty

RECURSIVE prepare_iter(_)
prepare_iter(self) ==
    IF Tail(self) = Nil
    THEN Cons(Some(Head(self)), Tail(self))
    ELSE LET head == Some(Head(self))
             tail == prepare_iter(Tail(self))
         IN  Cons(head, tail)

(***************************************************************************)
(* ReadyIter: next takes the head slot and, when that was already empty,   *)
(* asks the tail; len counts the populated slots.  ready_next gives the    *)
(* item and the slots after the call.                                      *)
(***************************************************************************)
\* Mutant: the head slot is read but left populated.
ready_next_keeps_slot(self) == <<Head(self), self>>

\* Mutant: the tail is asked first, and the head slot taken when it is spent.
RECURSIVE ready_next_tail_first(_)
ready_next_tail_first(self) ==
    IF Tail(self) = Nil
    THEN LET t == take(Head(self))
         IN  <<t[1], Cons(t[2], Nil)>>
    ELSE LET r == ready_next_tail_first(Tail(self))
         IN  IF r[1].some
             THEN <<r[1], Cons(Head(self), r[2])>>
             ELSE LET t == take(Head(self))
                  IN  <<t[1], Cons(t[2], r[2])>>

RECURSIVE ready_next(_)
ready_next(self) ==
    LET t == take(Head(self))
    IN  IF Tail(self) = Nil
        THEN <<t[1], Cons(t[2], Nil)>>
        ELSE IF t[1].some
             THEN <<t[1], Cons(t[2], Tail(self))>>
             ELSE LET r == ready_next(Tail(self))
                  IN  <<r[1], Cons(t[2], r[2])>>

\* Mutant: every slot is counted, populated or not.
ready_len_counts_slots(self) == Len(self)

RECURSIVE ready_len(_)
ready_len(self) ==
    LET head == IF Head(self).some THEN 1 ELSE 0
    IN  IF Tail(self) = Nil
        THEN head
        ELSE head + ready_len(Tail(self))

(***************************************************************************)
(* IntoIter: next and len forward to the prepared slots.                   *)
(***************************************************************************)
into_iter(self) == prepare_iter(self)
next(prepared) == ready_next(prepared)
len(prepared) == ready_len(prepared)
size_hint(prepared) ==
    LET l == len(prepared)
    IN  <<l, Some(l)>>

(***************************************************************************)
(* Nil is an iterator of its own: it never yields and its length is LEN.   *)
(***************************************************************************)
Nil_LEN == 0
Nil_len(self) == Nil_LEN
Nil_next(self) == <<None, self>>
Nil_size_hint(self) ==
    LET l == Nil_len(self)
    IN  <<l, Some(l)>>

(***************************************************************************)
(* Writing through a mutable reference, and the loops of the               *)
(* documentation over the references of a list: `for item in &list` reads  *)
(* every item, `for item in &mut list { *item += n }` adds n to each.      *)
(***************************************************************************)
\* *r = v
Assign(self, r, v) == [self EXCEPT ![r.at + 1] = v]

\* *r += n
AddAssign(self, r, n) == [self EXCEPT ![r.at + 1].v = @ + n]

into_iter_ref(self) == prepare_iter(to_ref(self))
into_iter_mut(self) == prepare_iter(to_mut(self))

RECURSIVE for_item_in_ref(_, _)
for_item_in_ref(prepared, self) ==
    LET out == next(prepared)
    IN  IF out[1].some
        THEN <<Deref(self, out[1].val)>> \o for_item_in_ref(out[2], self)
        ELSE <<>>

RECURSIVE for_item_in_mut(_, _, _)
for_item_in_mut(prepared, self, n) ==
    LET out == next(prepared)
    IN  IF out[1].some
        THEN for_item_in_mut(out[2], AddAssign(self, out[1].val, n), n)
        ELSE self

(***************************************************************************)
(* Calls.                                                                  *)
(***************************************************************************)
Call(op, self, arg, ret) == [op |-> op, self |-> self, arg |-> arg, ret |-> ret]

NoIter == Nil

(***************************************************************************)
(* Programs over append / prepend / pop / pop_front.                       *)
(***************************************************************************)
EndsInit ==
    /\ list \in ListsUpTo(Elems, MaxLen)
    /\ log = <<>>
    /\ iter = NoIter

CallAppend ==
    /\ Len(log) < MaxOps
    /\ \E x \in Elems :
         LET out == append(list, x)
         IN  /\ list' = out
             /\ log' = Append(log, Call("append", list, <<x>>, out))
    /\ UNCHANGED iter

CallPrepend ==
    /\ Len(log) < MaxOps
    /\ \E x \in Elems :
         LET out == prepend(list, x)
         IN  /\ list' = out
             /\ log' = Append(log, Call("prepend", list, <<x>>, out))
    /\ UNCHANGED iter

CallPop ==
    /\ Len(log) < MaxOps
    /\ PopDefined(list)
    /\ LET out == pop(list)
       IN  /\ list' = out[2]
           /\ log' = Append(log, Call("pop", list, <<>>, out))
    /\ UNCHANGED iter

CallPopFront ==
    /\ Len(log) < MaxOps
    /\ PopFrontDefined(list)
    /\ LET out == pop_front(list)
       IN  /\ list' = out[2]
           /\ log' = Append(log, Call("pop_front", list, <<>>, out))
    /\ UNCHANGED iter

EndsNext == CallAppend \/ CallPrepend \/ CallPop \/ CallPopFront

EndsSpec == EndsInit /\ [][EndsNext]_vars

(***************************************************************************)
(* Programs that take elements out of a list: one call of remove,          *)
(* provide_once, remove_many or shuffle on an input list.  The requested   *)
(* types T are the caller's; the index I is any index for which the        *)
(* implementation exists.                                                  *)
(***************************************************************************)
\* The inputs: every list up to the bound, and the list of the doc-tests.
DocList == <<I32(1), F32(2), Bool(TRUE), Str("hello world")>>

RemoveLists ==
    ListsUpTo(Elems, MaxBatchLen) \cup ListsUpTo(DupElems, MaxBatchLen) \cup {DocList}

RemoveInit ==
    /\ list \in RemoveLists
    /\ log = <<>>
    /\ iter = NoIter

CallRemove ==
    /\ log = <<>>
    /\ \E T \in Types : \E I \in RemoveIndices(list, T) :
         LET out == remove(list, I)
         IN  /\ list' = out[2]
             /\ log' = Append(log, Call("remove", list, <<T, I>>, out))
    /\ UNCHANGED iter

CallProvideOnce ==
    /\ log = <<>>
    /\ \E T \in Types : \E I \in RemoveIndices(list, T) :
         LET out == provide_once(list, I)
         IN  /\ list' = out[2]
             /\ log' = Append(log, Call("provide_once", list, <<T, I>>, out))
    /\ UNCHANGED iter

CallRemoveMany ==
    /\ log = <<>>
    /\ \E T \in ListsUpTo(Types, Len(list)) : \E I \in RemoveManyIndices(list, T) :
         LET out == remove_many(list, I)
         IN  /\ list' = out[2]
             /\ log' = Append(log, Call("remove_many", list, <<T, I>>, out))
    /\ UNCHANGED iter

CallShuffle ==
    /\ log = <<>>
    /\ \E T \in ListsUpTo(Types, Len(list)) : \E I \in ShuffleIndices(list, T) :
         LET out == shuffle(list, I)
         IN  /\ list' = out
             /\ log' = Append(log, Call("shuffle", list, <<T, I>>, out))
    /\ UNCHANGED iter

RemoveNext == CallRemove \/ CallProvideOnce \/ CallRemoveMany \/ CallShuffle

RemoveSpec == RemoveInit /\ [][RemoveNext]_vars

(***************************************************************************)
(* Programs that borrow many elements: one call of get_many or             *)
(* get_many_mut on an input list, which the call leaves as it is.          *)
(***************************************************************************)
GetManyInit ==
    /\ list \in RemoveLists
    /\ log = <<>>
    /\ iter = NoIter

CallGetMany ==
    /\ log = <<>>
    /\ \E T \in ListsUpTo(Types, Len(list)) : \E I \in GetManyIndices(list, T) :
         log' = Append(log, Call("get_many", list, <<T, I>>, get_many(list, I)))
    /\ UNCHANGED <<list, iter>>

CallGetManyMut ==
    /\ log = <<>>
    /\ \E T \in ListsUpTo(Types, Len(list)) : \E I \in GetManyIndices(list, T) :
         log' = Append(log, Call("get_many_mut", list, <<T, I>>, get_many_mut(list, I)))
    /\ UNCHANGED <<list, iter>>

GetManyNext == CallGetMany \/ CallGetManyMut

GetManySpec == GetManyInit /\ [][GetManyNext]_vars

(***************************************************************************)
(* Programs that fold: one call of fold or rfold on an input list, with an *)
(* initial accumulator and a folder for which the implementation exists.   *)
(***************************************************************************)
FoldElems == {I32(1), Bool(FALSE), F32(42)}

Run(n) == [k \in 1..n |-> I32(k)]

FoldLists == ListsUpTo(FoldElems, MaxFoldLen) \cup {Run(n) : n \in 0..MaxRun}

Inits == {F32(1), F32(8918), I32(0), String("0")}

Closures == {Closure(name) : name \in ClosureNames}

\* The function lists given for a data list: one closure that accepts each
\* element, and no function or one spare function past the end.
RECURSIVE FnLists(_, _)
FnLists(self, A) ==
    IF self = Nil
    THEN {Nil} \cup {<<f>> : f \in Closures}
    ELSE { Cons(f, rest) : f \in {c \in Closures : Accepts(c, A, Head(self).ty)},
                           rest \in FnLists(Tail(self), A) }

Folders(self, A) ==
    Closures \cup {Folder("MyFoldFn")} \cup {FnList(fs) : fs \in FnLists(self, A)}

FoldInit ==
    /\ list \in FoldLists
    /\ log = <<>>
    /\ iter = NoIter

CallFold ==
    /\ log = <<>>
    /\ \E init \in Inits : \E folder \in Folders(list, init.ty) :
         /\ FoldDefined(list, init.ty, folder)
         /\ log' = Append(log, Call("fold", list, <<init, folder>>, fold(list, init, folder)))
         /\ list' = Nil
    /\ UNCHANGED iter

CallRFold ==
    /\ log = <<>>
    /\ \E init \in Inits : \E folder \in Folders(list, init.ty) :
         /\ RFoldDefined(list, init.ty, folder)
         /\ log' = Append(log, Call("rfold", list, <<init, folder>>, rfold(list, init, folder)))
         /\ list' = Nil
    /\ UNCHANGED iter

FoldNext == CallFold \/ CallRFold

FoldSpec == FoldInit /\ [][FoldNext]_vars

(***************************************************************************)
(* Programs that collect a source iterator into a list shape: one call of  *)
(* from_iter.  A panic ends the program without a list.                    *)
(***************************************************************************)
Items == {I32(42), I32(7)}

FromIterInit ==
    /\ list = Nil
    /\ log = <<>>
    /\ iter = NoIter

CallFromIter ==
    /\ log = <<>>
    /\ \E Self \in 0..MaxSlots : \E source \in ListsUpTo(Items, MaxItems) :
         LET out == from_iter(Self, source)
         IN  /\ log' = Append(log, Call("from_iter", Self, <<source>>, out))
             /\ list' = out.list
    /\ UNCHANGED iter

FromIterNext == CallFromIter

FromIterSpec == FromIterInit /\ [][FromIterNext]_vars

(***************************************************************************)
(* Programs that drain a list: into_iter on an input list, then calls of   *)
(* next, some of them after the last element has been yielded.             *)
(***************************************************************************)
IterElems == {I32(1), I32(2), Bool(TRUE)}

IterLists == ListsUpTo(IterElems, MaxIterLen) \cup {Run(n) : n \in 0..MaxRun}

IntoIterInit ==
    /\ list \in IterLists
    /\ log = <<>>
    /\ iter = NoIter

CallIntoIter ==
    /\ log = <<>>
    /\ PrepareIterDefined(list)
    /\ iter' = into_iter(list)
    /\ log' = Append(log, Call("into_iter", list, <<>>, into_iter(list)))
    /\ list' = Nil

CallNext ==
    /\ log # <<>>
    /\ Len(log) - 1 < Len(log[1].self) + MaxExtraNext
    /\ LET out == next(iter)
       IN  /\ iter' = out[2]
           /\ log' = Append(log, Call("next", iter, <<>>, out[1]))
    /\ UNCHANGED list

IntoIterNext == CallIntoIter \/ CallNext

IntoIterSpec == IntoIterInit /\ [][IntoIterNext]_vars

(***************************************************************************)
(* Programs that watch the length of an iterator while draining it: the    *)
(* iterator of a list of one element type, or Nil iterating over itself,   *)
(* with calls of len and size_hint between the calls of next.              *)
(***************************************************************************)
CallNilIntoIter ==
    /\ log = <<>>
    /\ list = Nil
    /\ iter' = list
    /\ log' = Append(log, Call("into_iter", list, <<>>, list))
    /\ list' = Nil

IsNilIter == log # <<>> /\ log[1].self = Nil

MoreNext == log # <<>> /\ Len(log) - 1 < Len(log[1].self) + MaxExtraNext

MoreLen ==
    /\ log # <<>>
    /\ Cardinality({i \in DOMAIN log : log[i].op \in {"len", "size_hint"}}) < MaxLenCalls

CallReadyNext ==
    /\ ~IsNilIter
    /\ CallNext

CallNilNext ==
    /\ IsNilIter
    /\ MoreNext
    /\ LET out == Nil_next(iter)
       IN  /\ iter' = out[2]
           /\ log' = Append(log, Call("next", iter, <<>>, out[1]))
    /\ UNCHANGED list

CallLen ==
    /\ MoreLen
    /\ log' = Append(log, Call("len", iter, <<>>,
                               IF IsNilIter THEN Nil_len(iter) ELSE len(iter)))
    /\ UNCHANGED <<list, iter>>

CallSizeHint ==
    /\ MoreLen
    /\ log' = Append(log, Call("size_hint", iter, <<>>,
                               IF IsNilIter THEN Nil_size_hint(iter) ELSE size_hint(iter)))
    /\ UNCHANGED <<list, iter>>

ExactSizeNext ==
    \/ CallIntoIter
    \/ CallNilIntoIter
    \/ CallReadyNext
    \/ CallNilNext
    \/ CallLen
    \/ CallSizeHint

ExactSizeSpec == IntoIterInit /\ [][ExactSizeNext]_vars

(***************************************************************************)
(* Programs that measure lists: the run-time len of the list owned, the    *)
(* LEN of its shape, between calls that grow and shrink the list.          *)
(***************************************************************************)
LenLists == ListsUpTo(Elems, MaxLen) \cup {Run(n) : n \in 0..MaxRun}

LenInit ==
    /\ list \in LenLists
    /\ log = <<>>
    /\ iter = NoIter

CallHListLen ==
    /\ Len(log) < MaxOps
    /\ log' = Append(log, Call("len", list, <<>>, HList_len(list)))
    /\ UNCHANGED <<list, iter>>

CallLEN ==
    /\ Len(log) < MaxOps
    /\ log' = Append(log, Call("LEN", TypesOf(list), <<>>, LEN(TypesOf(list))))
    /\ UNCHANGED <<list, iter>>

LenNext ==
    \/ CallHListLen
    \/ CallLEN
    \/ CallAppend
    \/ CallPrepend
    \/ CallPop
    \/ CallPopFront

LenSpec == LenInit /\ [][LenNext]_vars

(***************************************************************************)
(* Programs that reverse the list they own, once or several times.         *)
(***************************************************************************)
ReverseInit ==
    /\ list \in RemoveLists
    /\ log = <<>>
    /\ iter = NoIter

CallReverse ==
    /\ Len(log) < MaxOps
    /\ LET out == reverse(list)
       IN  /\ list' = out
           /\ log' = Append(log, Call("reverse", list, <<>>, out))
    /\ UNCHANGED iter

ReverseNext == CallReverse \/ CallPop \/ CallAppend

ReverseSpec == ReverseInit /\ [][ReverseNext]_vars

(***************************************************************************)
(* Programs that zip the list they own with another list and unzip lists   *)
(* of pairs, keeping one of the two lists that unzip returns.              *)
(***************************************************************************)
ZipDocFirst  == <<I32(1), I32(2), I32(3)>>
ZipDocSecond == <<I32(4), I32(5), I32(6)>>
UnzipDocList == <<Tuple2(I32(1), I32(2)), Tuple2(I32(3), I32(4)), Tuple2(I32(5), I32(6))>>

ZipOthers == ListsUpTo(DupElems, MaxLen) \cup {ZipDocFirst, ZipDocSecond}

ZipLists == ZipOthers \cup {UnzipDocList}

ZipInit ==
    /\ list \in ZipLists
    /\ log = <<>>
    /\ iter = NoIter

CallZip ==
    /\ Len(log) < MaxOps
    /\ Cardinality({i \in DOMAIN log : log[i].op = "zip"}) < MaxZips
    /\ \E other \in ZipOthers :
         /\ ZipDefined(list, other)
         /\ LET out == zip(list, other)
            IN  /\ list' = out
                /\ log' = Append(log, Call("zip", list, <<other>>, out))
    /\ UNCHANGED iter

CallUnzip ==
    /\ Len(log) < MaxOps
    /\ UnzipDefined(list)
    /\ LET out == unzip(list)
       IN  /\ \E k \in 1..2 : list' = out[k]
           /\ log' = Append(log, Call("unzip", list, <<>>, out))
    /\ UNCHANGED iter

ZipNext == CallZip \/ CallUnzip

ZipSpec == ZipInit /\ [][ZipNext]_vars

(***************************************************************************)
(* Programs that extend the list they own with another list and measure    *)
(* the result.                                                             *)
(***************************************************************************)
ExtendDocFirst  == <<I32(1), F32(2)>>
ExtendDocSecond == <<Bool(TRUE), Str("hello world")>>

ExtendLists == ListsUpTo(DupElems, MaxLen) \cup {ExtendDocFirst, ExtendDocSecond}

ExtendInit ==
    /\ list \in ExtendLists
    /\ log = <<>>
    /\ iter = NoIter

CallExtend ==
    /\ Len(log) < MaxOps
    /\ Cardinality({i \in DOMAIN log : log[i].op = "extend"}) < MaxExtends
    /\ \E other \in ExtendLists :
         LET out == extend(list, other)
         IN  /\ list' = out
             /\ log' = Append(log, Call("extend", list, <<other>>, out))
    /\ UNCHANGED iter

ExtendNext == CallExtend \/ CallHListLen

ExtendSpec == ExtendInit /\ [][ExtendNext]_vars

(***************************************************************************)
(* Programs that flatten the list of lists they own, once or again.  The   *)
(* inner lists hold plain values and lists, empty lists among them.        *)
(***************************************************************************)
FlattenDocData ==
    <<HListElem(<<I32(1), F32(2), Bool(TRUE), Str("hello world")>>),
      HListElem(<<I32(5), F32(6)>>)>>

D3 ==
    <<HListElem(<<HListElem(<<I32(0), I32(1)>>), HListElem(<<I32(2), I32(3)>>)>>),
      HListElem(<<HListElem(<<I32(4), I32(5)>>), HListElem(<<I32(6), I32(7)>>)>>),
      HListElem(<<HListElem(<<I32(8), I32(9)>>)>>)>>

D2 ==
    <<HListElem(<<I32(0), I32(1)>>), HListElem(<<I32(2), I32(3)>>),
      HListElem(<<I32(4), I32(5)>>), HListElem(<<I32(6), I32(7)>>),
      HListElem(<<I32(8), I32(9)>>)>>

D1 == [i \in 1..10 |-> I32(i - 1)]

InnerElems == {I32(1), HListElem(Nil), HListElem(<<I32(7)>>)}

InnerLists == ListsUpTo(InnerElems, MaxInnerLen)

FlattenLists ==
    ListsUpTo({HListElem(l) : l \in InnerLists}, MaxOuterLen) \cup {FlattenDocData, D3}

FlattenInit ==
    /\ list \in FlattenLists
    /\ log = <<>>
    /\ iter = NoIter

CallFlatten ==
    /\ Len(log) < MaxOps
    /\ FlattenDefined(list)
    /\ LET out == flatten(list)
       IN  /\ list' = out
           /\ log' = Append(log, Call("flatten", list, <<>>, out))
    /\ UNCHANGED iter

FlattenNext == CallFlatten

FlattenSpec == FlattenInit /\ [][FlattenNext]_vars

(***************************************************************************)
(* Programs that read and write single elements of the list they own: by   *)
(* type and index (get, provide), by index (list[index]), through the      *)
(* references of to_mut, and in loops over the references of the list.     *)
(***************************************************************************)
I64(n) == [ty |-> "i64", v |-> n, s |-> ""]

ProvideDocList == <<I32(0), I64(1)>>
IndexDocList   == <<I32(1), F32(2), Bool(FALSE)>>

ForDocList     == <<I32(1), I32(2), I32(3), I32(4), I32(5)>>

\* Two elements of one type with an element of another type between them.
MixedList == <<I32(1), Bool(TRUE), I32(7)>>

AccessElems == {I32(1), I32(7)}

AccessLists ==
    ListsUpTo(AccessElems, MaxLen)
        \cup {ProvideDocList, IndexDocList, ForDocList, MixedList}

AccessTypes == {"i32", "i64", "f32", "bool"}

\* The values a program writes: 5_i32 and 16_f32.sqrt() of the documentation
\* among them.
NewValues(T) ==
    CASE T = "i32"  -> {I32(5)}
      [] T = "i64"  -> {I64(5)}
      [] T = "f32"  -> {F32(4)}
      [] T = "bool" -> {Bool(FALSE), Bool(TRUE)}

AccessInit ==
    /\ list \in AccessLists
    /\ log = <<>>
    /\ iter = NoIter

CallGet ==
    /\ Len(log) < MaxOps
    /\ \E T \in AccessTypes : \E I \in GetIndices(list, T) :
         log' = Append(log, Call("get", list, <<T, I>>, get(list, I)))
    /\ UNCHANGED <<list, iter>>

CallProvide ==
    /\ Len(log) < MaxOps
    /\ \E T \in AccessTypes : \E I \in ProvideIndices(list, T) :
         log' = Append(log, Call("provide", list, <<T, I>>, provide(list, I)))
    /\ UNCHANGED <<list, iter>>

CallIndex ==
    /\ Len(log) < MaxOps
    /\ \E I \in IndexIndices(list) :
         log' = Append(log, Call("index", list, <<I>>, index(list, I)))
    /\ UNCHANGED <<list, iter>>

CallGetMut ==
    /\ Len(log) < MaxOps
    /\ \E T \in AccessTypes : \E I \in GetIndices(list, T) : \E v \in NewValues(T) :
         LET r == get_mut(list, I)
         IN  /\ list' = Assign(list, r, v)
             /\ log' = Append(log, Call("get_mut", list, <<I, v>>, r))
    /\ UNCHANGED iter

CallProvideMut ==
    /\ Len(log) < MaxOps
    /\ \E T \in AccessTypes : \E I \in ProvideIndices(list, T) : \E v \in NewValues(T) :
         LET r == provide_mut(list, I)
         IN  /\ list' = Assign(list, r, v)
             /\ log' = Append(log, Call("provide_mut", list, <<I, v>>, r))
    /\ UNCHANGED iter

CallIndexMut ==
    /\ Len(log) < MaxOps
    /\ \E I \in IndexIndices(list) :
         LET r == index_mut(list, I)
         IN  \E v \in NewValues(Deref(list, r).ty) :
                 /\ list' = Assign(list, r, v)
                 /\ log' = Append(log, Call("index_mut", list, <<I, v>>, r))
    /\ UNCHANGED iter

CallToMut ==
    /\ Len(log) < MaxOps
    /\ \E k \in DOMAIN list : \E v \in NewValues(list[k].ty) :
         LET r == to_mut(list)[k]
         IN  /\ list' = Assign(list, r, v)
             /\ log' = Append(log, Call("to_mut", list, <<k - 1, v>>, r))
    /\ UNCHANGED iter

CallForItemInRef ==
    /\ Len(log) < MaxOps
    /\ PrepareIterDefined(to_ref(list))
    /\ log' = Append(log, Call("for_item_in_ref", list, <<>>,
                               for_item_in_ref(into_iter_ref(list), list)))
    /\ UNCHANGED <<list, iter>>

CallForItemInMut ==
    /\ Len(log) < MaxOps
    /\ PrepareIterDefined(to_mut(list))
    /\ Head(list).ty = "i32"
    /\ LET out == for_item_in_mut(into_iter_mut(list), list, 10)
       IN  /\ list' = out
           /\ log' = Append(log, Call("for_item_in_mut", list, <<10>>, out))
    /\ UNCHANGED iter

AccessNext ==
    \/ CallGet
    \/ CallProvide
    \/ CallIndex
    \/ CallGetMut
    \/ CallProvideMut
    \/ CallIndexMut
    \/ CallToMut
    \/ CallForItemInRef
    \/ CallForItemInMut

AccessSpec == AccessInit /\ [][AccessNext]_vars

(***************************************************************************)
(* Programs that compute with indices: a first index is drawn, every later *)
(* call works on the index the call before returned, and the other operand *)
(* of an addition, subtraction or comparison is drawn.                     *)
(***************************************************************************)
RECURSIVE IndicesUpTo(_)
IndicesUpTo(n) ==
    IF n = 0
    THEN {Here}
    ELSE {Here} \cup {There(I) : I \in IndicesUpTo(n - 1)}

IndexOps == {"inc", "dec", "add", "sub"}

\* The indices a call can be made on.
Current ==
    IF log = <<>>
    THEN IndicesUpTo(MaxDepth)
    ELSE IF log[Len(log)].op \in IndexOps THEN {log[Len(log)].ret} ELSE {}

IndexInit ==
    /\ list = Nil
    /\ log = <<>>
    /\ iter = NoIter

CallInc ==
    /\ Len(log) < MaxOps
    /\ \E self \in Current :
         log' = Append(log, Call("inc", self, <<>>, inc(self)))
    /\ UNCHANGED <<list, iter>>

CallDec ==
    /\ Len(log) < MaxOps
    /\ \E self \in Current :
         /\ DecDefined(self)
         /\ log' = Append(log, Call("dec", self, <<>>, dec(self)))
    /\ UNCHANGED <<list, iter>>

CallAdd ==
    /\ Len(log) < MaxOps
    /\ \E self \in Current : \E rhs \in IndicesUpTo(MaxDepth) :
         log' = Append(log, Call("add", self, <<rhs>>, add(self, rhs)))
    /\ UNCHANGED <<list, iter>>

CallSub ==
    /\ Len(log) < MaxOps
    /\ \E self \in Current : \E rhs \in IndicesUpTo(MaxDepth) :
         /\ SubDefined(self, rhs)
         /\ log' = Append(log, Call("sub", self, <<rhs>>, sub(self, rhs)))
    /\ UNCHANGED <<list, iter>>

CallEq ==
    /\ Len(log) < MaxOps
    /\ \E self \in Current : \E other \in IndicesUpTo(MaxDepth) :
         log' = Append(log, Call("eq", self, <<other>>, eq(self, other)))
    /\ UNCHANGED <<list, iter>>

CallPartialCmp ==
    /\ Len(log) < MaxOps
    /\ \E self \in Current : \E other \in IndicesUpTo(MaxDepth) :
         log' = Append(log, Call("partial_cmp", self, <<other>>, partial_cmp(self, other)))
    /\ UNCHANGED <<list, iter>>

IndexNext ==
    \/ CallInc
    \/ CallDec
    \/ CallAdd
    \/ CallSub
    \/ CallEq
    \/ CallPartialCmp

IndexSpec == IndexInit /\ [][IndexNext]_vars

(***************************************************************************)
(* Programs that map: one call of map on an input list with a mapper for   *)
(* which the implementation exists.                                        *)
(***************************************************************************)
MapElems == {I32(1), F32(2), Bool(TRUE)}

MapDocList == <<I32(1), Bool(FALSE), F32(42)>>

MapLists ==
    ListsUpTo(MapElems, MaxFoldLen) \cup {Run(n) : n \in 0..MaxRun} \cup {MapDocList}

MapClosures == {Closure(name) : name \in MapClosureNames}

\* The function lists given for a data list: one closure that takes each
\* element, and no function or one spare function past the end.
RECURSIVE MapFnLists(_)
MapFnLists(self) ==
    IF self = Nil
    THEN {Nil} \cup {<<f>> : f \in MapClosures}
    ELSE { Cons(f, rest) : f \in {c \in MapClosures : Takes(c, Head(self).ty)},
                           rest \in MapFnLists(Tail(self)) }

Mappers(self) ==
    MapClosures \cup {Mapper("MyMapFn")} \cup {FnList(fs) : fs \in MapFnLists(self)}

MapInit ==
    /\ list \in MapLists
    /\ log = <<>>
    /\ iter = NoIter

CallMap ==
    /\ log = <<>>
    /\ \E mapper \in Mappers(list) :
         /\ MapDefined(list, mapper)
         /\ log' = Append(log, Call("map", list, <<mapper>>, map(list, mapper)))
         /\ list' = map(list, mapper)
    /\ UNCHANGED iter

MapNext == CallMap

MapSpec == MapInit /\ [][MapNext]_vars

(***************************************************************************)
(* Programs that map or fold with a function list.  The function list is   *)
(* any list of closures, of any length up to one more than the data list,  *)
(* and the call is made when the implementation exists for it.             *)
(***************************************************************************)
FnElems == {I32(1), Bool(FALSE)}

FnData == ListsUpTo(FnElems, MaxLen)

FoldFns == {Closure("add_i32"), Closure("cond"), Closure("sum")}

MapFns == {Closure("add2"), Closure("not"), Closure("number")}

FnInit ==
    /\ list \in FnData
    /\ log = <<>>
    /\ iter = NoIter

CallMapFns ==
    /\ log = <<>>
    /\ \E fs \in ListsUpTo(MapFns, Len(list) + 1) :
         /\ MapDefined(list, FnList(fs))
         /\ log' = Append(log, Call("map", list, <<FnList(fs)>>, map(list, FnList(fs))))
         /\ list' = map(list, FnList(fs))
    /\ UNCHANGED iter

CallFoldFns ==
    /\ log = <<>>
    /\ \E init \in Inits : \E fs \in ListsUpTo(FoldFns, Len(list) + 1) :
         /\ FoldDefined(list, init.ty, FnList(fs))
         /\ log' = Append(log, Call("fold", list, <<init, FnList(fs)>>,
                                    fold(list, init, FnList(fs))))
         /\ list' = Nil
    /\ UNCHANGED iter

CallRFoldFns ==
    /\ log = <<>>
    /\ \E init \in Inits : \E fs \in ListsUpTo(FoldFns, Len(list) + 1) :
         /\ RFoldDefined(list, init.ty, FnList(fs))
         /\ log' = Append(log, Call("rfold", list, <<init, FnList(fs)>>,
                                    rfold(list, init, FnList(fs))))
         /\ list' = Nil
    /\ UNCHANGED iter

FnNext == CallMapFns \/ CallFoldFns \/ CallRFoldFns

FnSpec == FnInit /\ [][FnNext]_vars

(***************************************************************************)
(* Programs that restructure the list they own: the operations that add,   *)
(* take out, reorder, transform or borrow elements, and the two questions  *)
(* about its length.  The operations that draw types or a mapper are the   *)
(* first call of a program; the others follow in any order.                *)
(***************************************************************************)
StructLists == ListsUpTo(DupElems, MaxLen) \cup {DocList}

StructOthers == {Nil, ExtendDocSecond}

StructInit ==
    /\ list \in StructLists
    /\ log = <<>>
    /\ iter = NoIter

CallIsEmpty ==
    /\ Len(log) < MaxOps
    /\ log' = Append(log, Call("is_empty", list, <<>>, is_empty(list)))
    /\ UNCHANGED <<list, iter>>

CallToRef ==
    /\ Len(log) < MaxOps
    /\ \E op \in {"to_ref", "to_mut"} :
         log' = Append(log, Call(op, list, <<>>,
                                 IF op = "to_ref" THEN to_ref(list) ELSE to_mut(list)))
    /\ UNCHANGED <<list, iter>>

CallExtendWith ==
    /\ Len(log) < MaxOps
    /\ \E other \in StructOthers :
         LET out == extend(list, other)
         IN  /\ list' = out
             /\ log' = Append(log, Call("extend", list, <<other>>, out))
    /\ UNCHANGED iter

StructNext ==
    \/ CallAppend
    \/ CallPrepend
    \/ CallPop
    \/ CallPopFront
    \/ CallRemove
    \/ CallRemoveMany
    \/ CallShuffle
    \/ CallReverse
    \/ CallMap
    \/ CallToRef
    \/ CallExtendWith
    \/ CallHListLen
    \/ CallIsEmpty

StructSpec == StructInit /\ [][StructNext]_vars

(***************************************************************************)
(* The walk of reverse, one activation of rewind at a time.  The log holds *)
(* the activations, each with its list, its `done` and, once the walk has  *)
(* reached Nil, the value it returns; every activation returns what the    *)
(* one it called returns.                                                  *)
(***************************************************************************)
RewindInit ==
    /\ list \in RemoveLists
    /\ log = <<>>
    /\ iter = NoIter

Pending == log # <<>> /\ ~log[Len(log)].ret.some

\* reverse: self.rewind(Nil)
EnterRewind ==
    /\ log = <<>>
    /\ log' = <<Call("rewind", list, <<Nil>>, None)>>
    /\ list' = Nil
    /\ UNCHANGED iter

\* rewind for Cons: tail.rewind(Cons(next, done))
StepRewind ==
    /\ Pending
    /\ log[Len(log)].self # Nil
    /\ LET c == rewind_call(log[Len(log)].self, log[Len(log)].arg[1])
       IN  log' = Append(log, Call("rewind", c[1], <<c[2]>>, None))
    /\ UNCHANGED <<list, iter>>

\* rewind for Nil: done
ReturnRewind ==
    /\ Pending
    /\ log[Len(log)].self = Nil
    /\ LET done == log[Len(log)].arg[1]
       IN  /\ log' = [j \in DOMAIN log |-> [log[j] EXCEPT !.ret = Some(done)]]
           /\ list' = done
    /\ UNCHANGED iter

RewindNext == EnterRewind \/ StepRewind \/ ReturnRewind

RewindSpec == RewindInit /\ [][RewindNext]_vars

(***************************************************************************)
(* Programs that convert between tuples and lists: a first value is drawn, *)
(* a tuple or a list of up to MaxArity components, and every later call    *)
(* converts the value the call before returned.                            *)
(***************************************************************************)
\* n components of the four types of the documentation, in turn.
Mixed(n) ==
    [i \in 1..n |-> CASE i % 4 = 1 -> I32(i)
                      [] i % 4 = 2 -> F32(i)
                      [] i % 4 = 3 -> Bool(TRUE)
                      [] OTHER     -> Str("hello world")]

Components ==
    ListsUpTo(DupElems, MaxLen) \cup {Mixed(n) : n \in 0..MaxArity}

\* A value with its type, "tuple" or "HList".
ConvertValues ==
    {<<"HList", c>> : c \in Components} \cup {<<"tuple", TupleValue(c)>> : c \in Components}

\* The value the program holds: the one drawn, or what the last call returned.
\* The second argument of a logged call is the type of what it returned.
Value ==
    IF log = <<>>
    THEN ConvertValues
    ELSE {<<log[Len(log)].arg[2], log[Len(log)].ret>>}

ConvertInit ==
    /\ list = Nil
    /\ log = <<>>
    /\ iter = NoIter

CallIntoHList ==
    /\ Len(log) < MaxOps
    /\ \E x \in Value :
         /\ IntoHListDefined(x[1], x[2])
         /\ log' = Append(log, Call("into_hlist", x[2], <<x[1], "HList">>,
                                    into_hlist(x[1], x[2])))
    /\ UNCHANGED <<list, iter>>

CallIntoTuple ==
    /\ Len(log) < MaxOps
    /\ \E x \in Value :
         /\ IntoTupleDefined(x[1], x[2])
         /\ log' = Append(log, Call("into_tuple", x[2], <<x[1], "tuple">>,
                                    into_tuple(x[1], x[2])))
    /\ UNCHANGED <<list, iter>>

CallFromHList ==
    /\ Len(log) < MaxOps
    /\ \E x \in Value : \E Self \in {"tuple", "HList"} :
         /\ x[1] = "HList"
         /\ FromHListDefined(Self, x[2])
         /\ log' = Append(log, Call("from_hlist", x[2], <<x[1], Self>>,
                                    from_hlist(Self, x[2])))
    /\ UNCHANGED <<list, iter>>

CallFrom ==
    /\ Len(log) < MaxOps
    /\ \E x \in Value :
         IF x[1] = "tuple"
         THEN /\ HListFromTupleDefined(x[2])
              /\ log' = Append(log, Call("from", x[2], <<x[1], "HList">>,
                                         hlist_from_tuple(x[2])))
         ELSE /\ TupleFromHListDefined(x[2])
              /\ log' = Append(log, Call("from", x[2], <<x[1], "tuple">>,
                                         tuple_from_hlist(x[2])))
    /\ UNCHANGED <<list, iter>>

ConvertNext ==
    \/ CallIntoHList
    \/ CallIntoTuple
    \/ CallFromHList
    \/ CallFrom

ConvertSpec == ConvertInit /\ [][ConvertNext]_vars

RECURSIVE Depth(_)
Depth(I) == IF I = Here THEN 0 ELSE 1 + Depth(I.of)

Depths(I) == [j \in DOMAIN I |-> Depth(I[j])]

\* s with the element at zero-based position p spliced out / x put in at p.
Without(s, p) == SubSeq(s, 1, p) \o SubSeq(s, p + 2, Len(s))
InsertAt(s, p, x) == SubSeq(s, 1, p) \o <<x>> \o SubSeq(s, p + 1, Len(s))

\* The zero-based positions 0 .. n-1 as a list.
Positions(n) == [k \in 1..n |-> k - 1]

\* The elements of s at the zero-based positions ps, in the order of ps.
At(s, ps) == [j \in DOMAIN ps |-> s[ps[j] + 1]]

IsIncreasing(ps) == \A a, b \in DOMAIN ps : a < b => ps[a] < ps[b]
Range(s) == {s[k] : k \in DOMAIN s}
Count(s, x) == Cardinality({k \in DOMAIN s : s[k] = x})

\* The original positions that a batch of depths ks takes, each depth being
\* read against the positions ps that are left.
RECURSIVE Taken(_, _)
Taken(ps, ks) ==
    IF ks = <<>> THEN <<>>
    ELSE <<ps[ks[1] + 1]>> \o Taken(Without(ps, ks[1]), Tail(ks))

(***************************************************************************)
(* C3: remove (and provide_once) with an index of depth i, 0 <= i < len(L),*)
(* returns the pair (L[i], R) where R is L with exactly position i spliced *)
(* out: R has length len(L)-1, every other element keeps its relative      *)
(* order, and inserting the removed value back at position i of R          *)
(* reconstructs L.                                                         *)
(***************************************************************************)
C3_RemoveSplices ==
    \A c \in Range(log) :
        c.op \in {"remove", "provide_once"} =>
            LET i == Depth(c.arg[2])
                L == c.self
                R == c.ret[2]
            IN  /\ 0 <= i /\ i < Len(L)
                /\ c.ret[1] = L[i + 1]
                /\ c.ret[1].ty = c.arg[1]
                /\ Len(R) = Len(L) - 1
                /\ R = Without(L, i)
                /\ InsertAt(R, i, c.ret[1]) = L

\* An element has been removed from the middle of a list, past an earlier
\* element of the same type and another value.
C3_Witness ==
    \E c \in Range(log) :
        /\ c.op = "remove"
        /\ Depth(c.arg[2]) > 0
        /\ Depth(c.arg[2]) < Len(c.self) - 1
        /\ Head(c.self).ty = c.arg[1]
        /\ Head(c.self) # c.ret[1]

(***************************************************************************)
(* C4: remove_many with a batch index (k_1, ..., k_m) applies single       *)
(* remove m times in the order of the batch, each k_j being read against   *)
(* the remainder left by the previous removals (not against the original   *)
(* list).  It returns (extracted, remainder): extracted lists the removed  *)
(* elements in requested order, remainder the untouched elements in their  *)
(* original relative order; an empty batch returns (Nil, L).  For          *)
(* [1, 2.0, true, "hello world"] and the request (f32, i32, &str) it       *)
(* returns ([2.0, 1, "hello world"], [true]).                              *)
(***************************************************************************)
C4_RemoveManyThreads ==
    \A c \in Range(log) :
        c.op = "remove_many" =>
            LET L     == c.self
                T     == c.arg[1]
                ks    == Depths(c.arg[2])
                taken == Taken(Positions(Len(L)), ks)
                left  == SelectSeq(Positions(Len(L)), LAMBDA p : p \notin Range(taken))
            IN  /\ Len(ks) = Len(T)
                /\ Cardinality(Range(taken)) = Len(ks)
                /\ c.ret[1] = At(L, taken)
                /\ TypesOf(c.ret[1]) = T
                /\ c.ret[2] = At(L, left)
                /\ (ks = <<>> => c.ret = <<Nil, L>>)
                /\ (L = DocList
                      /\ T = <<"f32", "i32", "&str">>
                    => c.ret = << <<F32(2), I32(1), Str("hello world")>>, <<Bool(TRUE)>> >>)

\* The documented call has been made, and its second index is read against
\* the remainder: i32 is at depth 0 of what the first removal left.
C4_Witness ==
    \E c \in Range(log) :
        /\ c.op = "remove_many"
        /\ c.self = DocList
        /\ c.arg[1] = <<"f32", "i32", "&str">>
        /\ Depths(c.arg[2]) = <<1, 0, 1>>

(***************************************************************************)
(* C5: shuffle is defined only when the batch index consumes the entire    *)
(* input (the remainder of the underlying remove_many is Nil); when        *)
(* defined, its result is a permutation of the input: same length, every   *)
(* input element exactly once, in the requested order.                     *)
(***************************************************************************)
C5_ShufflePermutes ==
    \A c \in Range(log) :
        c.op = "shuffle" =>
            LET L     == c.self
                T     == c.arg[1]
                taken == Taken(Positions(Len(L)), Depths(c.arg[2]))
            IN  /\ Len(c.arg[2]) = Len(L)
                /\ remove_many(L, c.arg[2])[2] = Nil
                /\ Len(c.ret) = Len(L)
                /\ Range(taken) = Range(Positions(Len(L)))
                /\ c.ret = At(L, taken)
                /\ \A x \in Range(L) \cup Range(c.ret) : Count(c.ret, x) = Count(L, x)
                /\ TypesOf(c.ret) = T

\* A list of four elements has been shuffled into another order.
C5_Witness ==
    \E c \in Range(log) :
        /\ c.op = "shuffle"
        /\ c.self = DocList
        /\ c.ret = <<Bool(TRUE), I32(1), Str("hello world"), F32(2)>>

(***************************************************************************)
(* C6: get_many returns references to the located elements in the order of *)
(* the requested type list, not in the order in which they occur in the    *)
(* source list: for [1, 2.0, true, "hello world"] and the request          *)
(* (&str, f32) the result is ["hello world", 2.0]; get_many_mut returns    *)
(* the same positions in the same order.                                   *)
(***************************************************************************)
C6_GetManyRequestOrder ==
    \A c \in Range(log) :
        c.op \in {"get_many", "get_many_mut"} =>
            LET L     == c.self
                T     == c.arg[1]
                I     == c.arg[2]
                taken == Taken(Positions(Len(L)), Depths(I))
                ats   == [j \in DOMAIN c.ret |-> c.ret[j].at]
            IN  /\ Len(c.ret) = Len(T)
                /\ ats = taken
                /\ TypesOf(At(L, ats)) = T
                /\ \A j \in DOMAIN c.ret : Deref(L, c.ret[j]).ty = T[j]
                /\ c.op = "get_many" => c.ret = [j \in DOMAIN T |-> Ref(T[j], taken[j])]
                /\ c.op = "get_many_mut" =>
                      /\ c.ret = [j \in DOMAIN T |-> RefMut(T[j], taken[j])]
                      /\ ats = [j \in DOMAIN T |-> get_many(L, I)[j].at]
                /\ (L = DocList
                      /\ T = <<"&str", "f32">>
                    => At(L, ats) = <<Str("hello world"), F32(2)>>)
                /\ list = L

\* The documented call has been made: the references come back in the
\* requested order, which is not the source order.
C6_Witness ==
    \E c \in Range(log) :
        /\ c.op = "get_many"
        /\ c.self = DocList
        /\ c.arg[1] = <<"&str", "f32">>
        /\ ~IsIncreasing([j \in DOMAIN c.ret |-> c.ret[j].at])

(***************************************************************************)
(* Vocabulary of the claims about folds.                                   *)
(***************************************************************************)
\* f_k: the function applied to the element at position k (1-based here),
\* when `before` calls have been made before it: the k-th function of a
\* function list, else the one shared closure or Folder in the state that
\* `before` calls leave it in.
FnAt(folder, k, before) ==
    IF folder.kind = "hlist" THEN folder.fns[k] ELSE [folder EXCEPT !.n = before]

Invoke(f, acc, x) == IF f.kind = "Folder" THEN fold_fn(f, acc, x)[1] ELSE call(f, acc, x)[1]

\* f_k(... f_2(f_1(a, x_1), x_2) ..., x_k)
RECURSIVE LeftNest(_, _, _, _)
LeftNest(xs, a, folder, k) ==
    IF k = 0 THEN a
    ELSE Invoke(FnAt(folder, k, k - 1), LeftNest(xs, a, folder, k - 1), xs[k])

\* f_k(f_(k+1)(... f_n(a, x_n) ..., x_(k+1)), x_k)
RECURSIVE RightNest(_, _, _, _)
RightNest(xs, a, folder, k) ==
    IF k > Len(xs) THEN a
    ELSE Invoke(FnAt(folder, k, Len(xs) - k), RightNest(xs, a, folder, k + 1), xs[k])

DocFoldList == <<I32(1), Bool(FALSE), F32(42)>>
DocFoldFns  == FnList(<<Closure("add_i32"), Closure("cond"), Closure("add_f32")>>)

(***************************************************************************)
(* C7: left fold threads the accumulator from head to tail: for a list     *)
(* x_0..x_(n-1) and initial accumulator a, fold returns                    *)
(* f_(n-1)(...f_1(f_0(a, x_0), x_1)..., x_(n-1)), f_i being the i-th       *)
(* per-position function, or the one shared function, or the one Folder;   *)
(* it returns a unchanged for the empty list.  For [1, false, 42] with     *)
(* a = 1 and the functions (acc + i, if not b and acc > 42 then 9000 else  *)
(* 0, acc + f) the result is 42; with a = 8918 it is 9042.                 *)
(***************************************************************************)
C7_FoldLeftNest ==
    \A c \in Range(log) :
        c.op = "fold" =>
            LET xs == c.self
                a  == c.arg[1]
                f  == c.arg[2]
            IN  /\ c.ret = LeftNest(xs, a, f, Len(xs))
                /\ xs = Nil => c.ret = a
                /\ (xs = DocFoldList /\ f \in {DocFoldFns, Folder("MyFoldFn")}) =>
                      /\ a = F32(1) => c.ret = F32(42)
                      /\ a = F32(8918) => c.ret = F32(9042)

\* The documented left fold has been made.
C7_Witness ==
    \E c \in Range(log) :
        /\ c.op = "fold"
        /\ c.self = DocFoldList
        /\ c.arg = <<F32(1), DocFoldFns>>
        /\ c.ret = F32(42)

(***************************************************************************)
(* C8: right fold threads the accumulator from tail to head: rfold returns *)
(* f_0(f_1(...f_(n-1)(a, x_(n-1))..., x_1), x_0), f_i staying paired with  *)
(* x_i (per-position mode) or being the one shared function or Folder; it  *)
(* returns a unchanged for the empty list.  For [1, false, 42] with a = 1  *)
(* and the three functions of the left-fold scenario the result is 9001;   *)
(* for [1,2,3,4,5] with the string-building function it is                 *)
(* "(1 + (2 + (3 + (4 + (5 + 0)))))".                                      *)
(***************************************************************************)
C8_RFoldRightNest ==
    \A c \in Range(log) :
        c.op = "rfold" =>
            LET xs == c.self
                a  == c.arg[1]
                f  == c.arg[2]
            IN  /\ c.ret = RightNest(xs, a, f, 1)
                /\ xs = Nil => c.ret = a
                /\ (xs = DocFoldList /\ f = DocFoldFns /\ a = F32(1)) => c.ret = F32(9001)
                /\ (xs = <<I32(1), I32(2), I32(3), I32(4), I32(5)>>
                      /\ f = Closure("fmt") /\ a = String("0"))
                   => c.ret = String("(1 + (2 + (3 + (4 + (5 + 0)))))")

\* The documented right fold over [1, 2, 3, 4, 5] has been made.
C8_Witness ==
    \E c \in Range(log) :
        /\ c.op = "rfold"
        /\ c.self = <<I32(1), I32(2), I32(3), I32(4), I32(5)>>
        /\ c.arg = <<String("0"), Closure("fmt")>>
        /\ c.ret.s = "(1 + (2 + (3 + (4 + (5 + 0)))))"

(***************************************************************************)
(* C9: building a fixed-shape list of n slots from an iterator that yields *)
(* m elements succeeds exactly when m = n, and then slot i holds the i-th  *)
(* yielded element; when m < n or m > n the conversion panics and no list  *)
(* is produced.  Five elements into a 5-slot list succeed; one element or  *)
(* ten elements into a 5-slot list are fatal; a non-empty iterator into    *)
(* the empty list is fatal.                                                *)
(***************************************************************************)
Repeat(x, m) == [k \in 1..m |-> x]

C9_FromIterExactLength ==
    \A c \in Range(log) :
        c.op = "from_iter" =>
            LET n      == c.self
                source == c.arg[1]
                m      == Len(source)
                ok     == c.ret.panic = ""
            IN  /\ ok <=> m = n
                /\ ok => c.ret.list = source /\ Len(c.ret.list) = n /\ list = source
                /\ ~ok => c.ret.list = Nil /\ list = Nil
                /\ (n = 5 /\ source = Repeat(I32(42), 5)) => ok
                /\ (n = 5 /\ source = Repeat(I32(42), 1)) => ~ok
                /\ (n = 5 /\ source = Repeat(I32(42), 10)) => ~ok
                /\ (n = 0 /\ source # <<>>) => ~ok

\* Ten elements have been collected into a 5-slot list, and it panicked.
C9_Witness ==
    \E c \in Range(log) :
        /\ c.op = "from_iter"
        /\ c.self = 5
        /\ c.arg[1] = Repeat(I32(42), 10)
        /\ c.ret.panic # ""

(***************************************************************************)
(* C10: draining an owned iterator over a list x_0..x_(n-1) yields exactly *)
(* x_0, x_1, ..., x_(n-1) in that order, each element exactly once, on the *)
(* first n calls of next; the (n+1)-th call and every later call return    *)
(* None.                                                                   *)
(***************************************************************************)
C10_DrainInOrder ==
    \A k \in 2..Len(log) :
        (log[1].op = "into_iter" /\ log[k].op = "next") =>
            LET xs == log[1].self
            IN  log[k].ret = IF k - 1 <= Len(xs) THEN Some(xs[k - 1]) ELSE None

\* An iterator over two or more elements has been drained and then asked
\* twice more.
C10_Witness ==
    /\ Len(log) >= 5
    /\ log[1].op = "into_iter"
    /\ Len(log[1].self) >= 2
    /\ Len(log) - 1 = Len(log[1].self) + 2
    /\ log[Len(log)].op = "next"

(***************************************************************************)
(* C11: the reported length of an iterator is exact in every state.  After *)
(* k calls of next on the iterator of an n-element list, len() is          *)
(* max(n - k, 0) and size_hint() is (len, Some(len)); a call of next that  *)
(* yields an element lowers the length by exactly one, and a call that     *)
(* yields nothing finds the length 0 and leaves it 0.                      *)
(***************************************************************************)
NextsBefore(j) == Cardinality({i \in 1..(j - 1) : log[i].op = "next"})

IterAfter(j) == IF j < Len(log) THEN log[j + 1].self ELSE iter

Remaining(it) == IF log[1].self = Nil THEN Nil_len(it) ELSE len(it)

C11_LenExact ==
    \A j \in 2..Len(log) :
        LET n == Len(log[1].self)
            k == NextsBefore(j)
            l == IF n - k > 0 THEN n - k ELSE 0
        IN  /\ log[j].op = "len" => log[j].ret = l
            /\ log[j].op = "size_hint" => log[j].ret = <<l, Some(l)>>
            /\ log[j].op = "next" =>
                   /\ Remaining(log[j].self) = l
                   /\ IF log[j].ret.some
                      THEN Remaining(IterAfter(j)) = Remaining(log[j].self) - 1
                      ELSE Remaining(log[j].self) = 0 /\ Remaining(IterAfter(j)) = 0

\* The length of an iterator over two or more elements was read after one
\* element had been taken and again after the iterator was drained and asked
\* once more.
C11_Witness ==
    /\ Len(log) >= 2
    /\ Len(log[1].self) >= 2
    /\ \E i, j \in 2..Len(log) :
          /\ i < j
          /\ log[i].op = "len"
          /\ NextsBefore(i) = 1
          /\ log[i].ret = Len(log[1].self) - 1
          /\ log[j].op = "size_hint"
          /\ NextsBefore(j) > Len(log[1].self)
          /\ log[j].ret = <<0, Some(0)>>

(***************************************************************************)
(* C12: len of a list is the number of Cons cells passed before the empty  *)
(* list: 0 for the empty list and one more than the len of the tail for a  *)
(* Cons; the LEN of a shape is the len of every value of that shape.       *)
(***************************************************************************)
\* The number of Cons cells passed before Nil is reached.
RECURSIVE ConsCells(_)
ConsCells(l) == IF l = Nil THEN 0 ELSE 1 + ConsCells(Tail(l))

\* The values of a shape, over the element values of the model.
RECURSIVE ValuesOf(_)
ValuesOf(Self) ==
    IF Self = Nil
    THEN {Nil}
    ELSE {Cons(h, t) : h \in {e \in Elems \cup DupElems : e.ty = Head(Self)},
                       t \in ValuesOf(Tail(Self))}

C12_LenCountsCells ==
    \A j \in DOMAIN log :
        /\ log[j].op = "len" =>
               /\ log[j].ret = ConsCells(log[j].self)
               /\ log[j].self = Nil => log[j].ret = 0
               /\ log[j].self # Nil => log[j].ret = 1 + HList_len(Tail(log[j].self))
        /\ log[j].op = "LEN" =>
               /\ log[j].ret = ConsCells(log[j].self)
               /\ \A l \in ValuesOf(log[j].self) : HList_len(l) = log[j].ret
               /\ \A i \in DOMAIN log :
                      (log[i].op = "len" /\ TypesOf(log[i].self) = log[j].self)
                          => log[i].ret = log[j].ret

\* A list of two elements was measured and then the LEN of its shape, a
\* shape that has several values, was read.
C12_Witness ==
    /\ Len(log) = 2
    /\ log[1].op = "len"
    /\ log[1].ret = 2
    /\ log[2].op = "LEN"
    /\ log[2].self = TypesOf(log[1].self)
    /\ Cardinality(ValuesOf(log[2].self)) >= 2

(***************************************************************************)
(* C13: reversing twice gives the list back: reverse(reverse(L)) = L for   *)
(* every list L, the empty list included.                                  *)
(***************************************************************************)
C13_ReverseInvolution ==
    \A i \in 1..(Len(log) - 1) :
        (log[i].op = "reverse" /\ log[i + 1].op = "reverse")
            => /\ log[i + 1].self = log[i].ret
               /\ log[i + 1].ret = log[i].self

\* A list of three elements of different types was reversed twice.
C13_Witness ==
    /\ Len(log) = 2
    /\ log[1].op = "reverse"
    /\ log[2].op = "reverse"
    /\ Len(log[1].self) >= 3
    /\ log[1].self[1] # log[1].self[3]
    /\ log[1].ret # log[1].self

(***************************************************************************)
(* C14: reverse(L) holds the elements of L in the opposite order: it is as *)
(* long as L, and its element at position i is the element of L at         *)
(* position n-1-i, counting from 0.  (Sequences count from 1: position i   *)
(* of the result is position n+1-i of L.)                                  *)
(***************************************************************************)
C14_ReverseOpposite ==
    \A j \in DOMAIN log :
        log[j].op = "reverse" =>
            LET L == log[j].self
                n == Len(L)
            IN  /\ Len(log[j].ret) = n
                /\ HList_len(log[j].ret) = HList_len(L)
                /\ \A i \in 1..n : log[j].ret[i] = L[n + 1 - i]

\* The list of the documentation, four elements of four types, was reversed.
C14_Witness ==
    /\ log # <<>>
    /\ log[1].op = "reverse"
    /\ log[1].self = DocList
    /\ log[1].ret = <<Str("hello world"), Bool(TRUE), F32(2), I32(1)>>

(***************************************************************************)
(* C15: unzip undoes zip: for lists L1 and L2 of equal length,             *)
(* unzip(zip(L1, L2)) = (L1, L2), the first list equal to L1 and the       *)
(* second to L2, element for element and in order.                         *)
(***************************************************************************)
C15_UnzipZip ==
    \A i \in 1..(Len(log) - 1) :
        (log[i].op = "zip" /\ log[i + 1].op = "unzip")
            => /\ log[i + 1].self = log[i].ret
               /\ log[i + 1].ret = <<log[i].self, log[i].arg[1]>>

\* Two different lists of two elements were zipped and the result unzipped.
C15_Witness ==
    /\ Len(log) = 2
    /\ log[1].op = "zip"
    /\ log[2].op = "unzip"
    /\ Len(log[1].self) = 2
    /\ log[1].self # log[1].arg[1]
    /\ log[1].self[1] # log[1].self[2]
    /\ log[2].ret[1] # log[2].ret[2]

(***************************************************************************)
(* C16: zip is defined exactly for two lists of the same length n; the     *)
(* result has length n and its i-th element is the pair (L1[i], L2[i]).    *)
(* Lists of different lengths are rejected and never produce a value.      *)
(***************************************************************************)
C16_ZipPairs ==
    /\ \A other \in ZipOthers : ZipDefined(list, other) <=> Len(list) = Len(other)
    /\ \A j \in DOMAIN log :
          log[j].op = "zip" =>
              LET L1 == log[j].self
                  L2 == log[j].arg[1]
                  n  == Len(L1)
              IN  /\ Len(L2) = n
                  /\ Len(log[j].ret) = n
                  /\ \A i \in 1..n : log[j].ret[i] = Tuple2(L1[i], L2[i])

\* The lists of the documentation were zipped, and the list of pairs now
\* owned could be offered shorter lists, which zip rejects.
C16_Witness ==
    /\ Len(log) = 1
    /\ log[1].op = "zip"
    /\ log[1].self = ZipDocFirst
    /\ log[1].arg[1] = ZipDocSecond
    /\ log[1].ret = <<Tuple2(I32(1), I32(4)), Tuple2(I32(2), I32(5)), Tuple2(I32(3), I32(6))>>
    /\ \E short \in ZipOthers :
          /\ Len(short) < Len(list)
          /\ ~ZipDefined(list, short)

(***************************************************************************)
(* C18: extend(A, B) is the elements of A in order followed by the         *)
(* elements of B in order: its length is len(A) + len(B), extend(Nil, B)   *)
(* is B and extend(A, Nil) is A.                                           *)
(***************************************************************************)
C18_ExtendConcatenates ==
    \A j \in DOMAIN log :
        log[j].op = "extend" =>
            LET A   == log[j].self
                B   == log[j].arg[1]
                out == log[j].ret
            IN  /\ HList_len(out) = HList_len(A) + HList_len(B)
                /\ \A i \in 1..Len(A) : out[i] = A[i]
                /\ \A i \in 1..Len(B) : out[Len(A) + i] = B[i]
                /\ A = Nil => out = B
                /\ B = Nil => out = A
                /\ (j < Len(log) /\ log[j + 1].op = "len")
                       => log[j + 1].ret = HList_len(A) + HList_len(B)

\* The second list of the documentation was extended with the first, and
\* the result measured.
C18_Witness ==
    /\ Len(log) = 2
    /\ log[1].op = "extend"
    /\ log[1].self = ExtendDocSecond
    /\ log[1].arg[1] = ExtendDocFirst
    /\ log[1].ret = <<Bool(TRUE), Str("hello world"), I32(1), F32(2)>>
    /\ log[2].op = "len"
    /\ log[2].ret = 4

(***************************************************************************)
(* C17: flatten removes exactly one level of nesting.  flatten(LL) is the  *)
(* concatenation, in order, of the element lists of LL: its length is the  *)
(* sum of their lengths, empty element lists contribute nothing, flatten   *)
(* of the empty list is empty, and the elements of the inner lists are     *)
(* taken as they are, lists among them staying lists.  The three-level     *)
(* list D3 flattens to the five lists of D2, and D2 to 0, 1, ..., 9.       *)
(***************************************************************************)
\* The number of elements in the first a element lists of LL.
RECURSIVE Offset(_, _)
Offset(LL, a) == IF a = 0 THEN 0 ELSE Offset(LL, a - 1) + Len(LL[a].list)

C17_FlattenOneLevel ==
    \A j \in DOMAIN log :
        log[j].op = "flatten" =>
            LET LL  == log[j].self
                out == log[j].ret
            IN  /\ Len(out) = Offset(LL, Len(LL))
                /\ \A a \in 1..Len(LL) :
                      \A b \in 1..Len(LL[a].list) :
                          out[Offset(LL, a - 1) + b] = LL[a].list[b]
                /\ LL = Nil => out = Nil
                /\ LL = D3 => out = D2
                /\ LL = D2 => out = D1

\* The three-level list of the documentation was flattened twice.
C17_Witness ==
    /\ Len(log) = 2
    /\ log[1].op = "flatten"
    /\ log[1].self = D3
    /\ Len(log[1].ret) = 5
    /\ log[2].op = "flatten"
    /\ log[2].ret = D1

(***************************************************************************)
(* C19: an index of nesting depth k (Here is 0, There<I> one more than I)  *)
(* selects the element at zero-based position k: get, provide and          *)
(* list[index] return the head for Here and what the tail returns for the  *)
(* inner index otherwise; an index whose depth is len(L) or more is        *)
(* rejected and returns nothing.                                           *)
(***************************************************************************)
\* The index of depth k.
RECURSIVE IndexOfDepth(_)
IndexOfDepth(k) == IF k = 0 THEN Here ELSE There(IndexOfDepth(k - 1))

Reads == {"get", "provide", "index"}

\* The index of a call that reads by index.
IndexOf(c) == c.arg[Len(c.arg)]

\* The same read, made on the tail with the inner index.
ReadOfTail(c) ==
    LET tail  == Tail(c.self)
        inner == IndexOf(c).of
    IN  CASE c.op = "get"     -> get(tail, inner)
          [] c.op = "provide" -> provide(tail, inner)
          [] c.op = "index"   -> index(tail, inner)

C19_IndexDepthIsPosition ==
    /\ \A k \in 0..(Len(list) + 1) :
          LET I == IndexOfDepth(k)
          IN  /\ I \in IndexIndices(list) <=> k < Len(list)
              /\ (\E T \in AccessTypes : I \in ProvideIndices(list, T)) <=> k < Len(list)
              /\ (\E T \in AccessTypes : I \in GetIndices(list, T)) <=> k < Len(list)
    /\ \A j \in DOMAIN log :
          log[j].op \in Reads =>
              LET L == log[j].self
                  I == IndexOf(log[j])
                  k == Depth(I)
              IN  /\ k < Len(L)
                  /\ log[j].ret.at = k
                  /\ Deref(L, log[j].ret) = L[k + 1]
                  /\ I = Here => Deref(L, log[j].ret) = Head(L)
                  /\ I # Here => Deref(L, log[j].ret) = Deref(Tail(L), ReadOfTail(log[j]))
                  /\ log[j].op # "index" => L[k + 1].ty = log[j].arg[1]

\* The last element of a list of two or more elements whose head has the
\* same type was read by type and index, and then by index alone.
C19_Witness ==
    /\ Len(log) = 2
    /\ log[1].op = "provide"
    /\ log[2].op = "index"
    /\ Len(list) >= 2
    /\ list[1].ty = list[Len(list)].ty
    /\ list[1] # list[Len(list)]
    /\ Depth(IndexOf(log[1])) = Len(list) - 1
    /\ IndexOf(log[2]) = IndexOf(log[1])
    /\ Deref(list, log[2].ret) = list[Len(list)]

(***************************************************************************)
(* C20: a write through a mutable reference obtained for position k (by    *)
(* get_mut or provide_mut, by list[index] = v, by to_mut, or in a loop     *)
(* over &mut list) changes exactly the element at position k: a following  *)
(* read at k returns the written value, every other element and the length *)
(* are unchanged.  The loop that adds 10 to each item of [1, 2, 3, 4, 5]    *)
(* leaves [11, 12, 13, 14, 15]; a loop over &list leaves the list as it    *)
(* was.                                                                    *)
(***************************************************************************)
Writes == {"get_mut", "provide_mut", "index_mut", "to_mut"}

\* The list as it was after the j-th call.
ListAfter(j) == IF j < Len(log) THEN log[j + 1].self ELSE list

\* The position a writing call was made for.
PositionOf(c) == IF c.op = "to_mut" THEN c.arg[1] ELSE Depth(c.arg[1])

C20_WriteChangesOnePosition ==
    \A j \in DOMAIN log :
        LET L     == log[j].self
            after == ListAfter(j)
        IN  /\ log[j].op \in Writes =>
                   LET k == PositionOf(log[j])
                       v == log[j].arg[2]
                   IN  /\ Len(after) = Len(L)
                       /\ after[k + 1] = v
                       /\ \A i \in DOMAIN L : i # k + 1 => after[i] = L[i]
                       /\ (/\ j < Len(log)
                           /\ log[j + 1].op \in Reads
                           /\ Depth(IndexOf(log[j + 1])) = k)
                              => Deref(log[j + 1].self, log[j + 1].ret) = v
            /\ log[j].op = "for_item_in_mut" =>
                   /\ Len(after) = Len(L)
                   /\ \A i \in DOMAIN L : after[i] = I32(L[i].v + 10)
                   /\ L = ForDocList => after = <<I32(11), I32(12), I32(13), I32(14), I32(15)>>
            /\ log[j].op = "for_item_in_ref" =>
                   /\ after = L
                   /\ log[j].ret = L
            /\ log[j].op \in Reads => after = L

\* The last of two or more elements of one type was written by index and
\* read back by type and index, the first element keeping its other value.
C20_Witness ==
    /\ Len(log) = 2
    /\ log[1].op = "index_mut"
    /\ log[2].op = "provide"
    /\ Len(list) >= 2
    /\ PositionOf(log[1]) = Len(list) - 1
    /\ Depth(IndexOf(log[2])) = Len(list) - 1
    /\ log[1].self[1].ty = log[1].arg[2].ty
    /\ log[1].self[Len(list)] # log[1].arg[2]
    /\ list[1] # list[Len(list)]
    /\ Deref(list, log[2].ret) = log[1].arg[2]

(***************************************************************************)
(* C21: index arithmetic is natural-number arithmetic on the nesting       *)
(* depth.  inc(i) has depth depth(i) + 1; dec(i) has depth depth(i) - 1    *)
(* and is undefined for Here; dec(inc(i)) = i; a + b has depth             *)
(* depth(a) + depth(b); a - b has depth depth(a) - depth(b) and is defined *)
(* exactly when depth(a) >= depth(b).                                      *)
(***************************************************************************)
C21_IndexArithmetic ==
    /\ \A a \in Current :
          /\ DecDefined(a) <=> a # Here
          /\ \A b \in IndicesUpTo(MaxDepth) : SubDefined(a, b) <=> Depth(a) >= Depth(b)
    /\ \A j \in DOMAIN log :
          LET a == log[j].self
              r == log[j].ret
          IN  /\ log[j].op = "inc" => Depth(r) = Depth(a) + 1
              /\ log[j].op = "dec" => a # Here /\ Depth(r) = Depth(a) - 1
              /\ log[j].op = "add" => Depth(r) = Depth(a) + Depth(log[j].arg[1])
              /\ log[j].op = "sub" =>
                     /\ Depth(a) >= Depth(log[j].arg[1])
                     /\ Depth(r) = Depth(a) - Depth(log[j].arg[1])
              /\ (j > 1 /\ log[j - 1].op = "inc" /\ log[j].op = "dec")
                     => r = log[j - 1].self

\* A sum of two indices of depth 1 or more had a deeper index that cannot be
\* subtracted from it, and an index of depth 1 or more was subtracted.
C21_Witness ==
    /\ Len(log) = 2
    /\ log[1].op = "add"
    /\ Depth(log[1].self) >= 1
    /\ Depth(log[1].arg[1]) >= 1
    /\ log[2].op = "sub"
    /\ Depth(log[2].arg[1]) >= 1
    /\ Depth(log[2].ret) >= 1
    /\ \E b \in IndicesUpTo(MaxDepth) : ~SubDefined(log[2].ret, b)

(***************************************************************************)
(* C22: comparison of indices is the total order of the encoded integers.  *)
(* a == b holds exactly when depth(a) = depth(b); partial_cmp(a, b) is     *)
(* Less, Equal or Greater as depth(a) is below, equal to or above          *)
(* depth(b), and never None.  There<T> compared with itself by its own     *)
(* implementation answers the same.                                        *)
(***************************************************************************)
C22_IndexOrder ==
    \A j \in DOMAIN log :
        LET a == log[j].self
        IN  /\ log[j].op = "eq" =>
                   LET b == log[j].arg[1]
                   IN  /\ log[j].ret <=> Depth(a) = Depth(b)
                       /\ (a = b /\ a # Here) => There_eq(a, b) = log[j].ret
            /\ log[j].op = "partial_cmp" =>
                   LET b == log[j].arg[1]
                   IN  /\ log[j].ret # None
                       /\ log[j].ret = Some(CASE Depth(a) < Depth(b) -> Less
                                               [] Depth(a) = Depth(b) -> Equal
                                               [] Depth(a) > Depth(b) -> Greater)
                       /\ (a = b /\ a # Here) => There_partial_cmp(a, b) = log[j].ret

\* An index of depth 2 or more, the result of a call, was compared with a
\* different index of depth 1 or more.
C22_Witness ==
    /\ Len(log) = 2
    /\ log[1].op \in IndexOps
    /\ log[2].op = "partial_cmp"
    /\ Depth(log[2].self) >= 2
    /\ Depth(log[2].arg[1]) >= 1
    /\ log[2].self # log[2].arg[1]
    /\ log[2].ret = Some(Greater)

(***************************************************************************)
(* C23: for every arity from 0 to 12, a tuple converted to a list and back *)
(* and a list converted to a tuple and back are what they were; the        *)
(* conversion keeps the number of elements and puts component i of the     *)
(* tuple at position i of the list, untouched; there is no conversion for  *)
(* arity 13 or more.                                                       *)
(***************************************************************************)
\* The components of a value of type T, in order.
ItemsOf(T, x) == IF T = "tuple" THEN x.items ELSE x

MapperAt(m, i) ==
    CASE m.kind = "closure" -> [m EXCEPT !.n = IF m.fn = "number" THEN i - 1 ELSE 0]
      [] m.kind = "hlist"   -> m.fns[i]
      [] m.kind = "Mapper"  -> m

Apply(f, x) == IF f.kind = "Mapper" THEN map_fn(f, x)[1] ELSE map_call(f, x)[1]

C24_MapPositionwise ==
    /\ map(Run(3), Closure("double")) = <<I32(2), I32(4), I32(6)>>
    /\ map(<<I32(1), F32(2), Bool(TRUE)>>,
           FnList(<<Closure("add2"), Closure("sub2"), Closure("not")>>))
          = <<I32(3), F32(0), Bool(FALSE)>>
    /\ \A j \in DOMAIN log :
          log[j].op = "map" =>
            LET self   == log[j].self
                mapper == log[j].arg[1]
                out    == log[j].ret
            IN  /\ Len(out) = Len(self)
                /\ self = Nil => out = Nil
                /\ \A i \in DOMAIN self : out[i] = Apply(MapperAt(mapper, i), self[i])

\* The three lists of the documentation were mapped, one with each kind of
\* mapper, in three programs; this is the one with the function list.
C24_Witness ==
    /\ Len(log) = 1
    /\ log[1].op = "map"
    /\ log[1].self = <<I32(1), F32(2), Bool(TRUE)>>
    /\ log[1].arg[1] = FnList(<<Closure("add2"), Closure("sub2"), Closure("not")>>)
    /\ log[1].ret = <<I32(3), F32(0), Bool(FALSE)>>
    /\ list = log[1].ret

(***************************************************************************)
(* C25: with a function list, map, fold and rfold are defined only when    *)
(* the function list and the data list have the same length; a function    *)
(* list of any other length, one with a function missing or one with a     *)
(* function that has no element, is rejected before anything runs.         *)
(* C25_SameLength states this of the calls made.  The implementations for  *)
(* Nil take any mapper or folder, so a function list with functions past   *)
(* the end of the data is accepted and those functions are never called:   *)
(* C25_FunctionPerElement states what holds, that the operation is defined *)
(* exactly when the function list has a function of the right type for     *)
(* every element, and that the result is that of the functions up to the   *)
(* length of the data.                                                     *)
(***************************************************************************)
\* The function list of a logged call.
FnsOf(c) == c.arg[Len(c.arg)].fns

C25_SameLength ==
    \A j \in DOMAIN log : Len(FnsOf(log[j])) = Len(log[j].self)

\* The data list of the program: the input, before and after the call.
Data == IF log = <<>> THEN list ELSE log[1].self

Fits(fs, self, A) ==
    /\ Len(fs) >= Len(self)
    /\ \A i \in DOMAIN self : Accepts(fs[i], A, self[i].ty)

C25_FunctionPerElement ==
    /\ \A fs \in ListsUpTo(MapFns, Len(Data) + 1) :
          MapDefined(Data, FnList(fs))
            <=> (Len(fs) >= Len(Data) /\ \A i \in DOMAIN Data : Takes(fs[i], Data[i].ty))
    /\ \A fs \in ListsUpTo(FoldFns, Len(Data) + 1) : \A init \in Inits :
          /\ FoldDefined(Data, init.ty, FnList(fs)) <=> Fits(fs, Data, init.ty)
          /\ RFoldDefined(Data, init.ty, FnList(fs)) <=> Fits(fs, Data, init.ty)
    /\ \A j \in DOMAIN log :
          LET c    == log[j]
              used == FnList(SubSeq(FnsOf(c), 1, Len(c.self)))
          IN  /\ Len(FnsOf(c)) >= Len(c.self)
              /\ c.op = "map" => c.ret = map(c.self, used)
              /\ c.op = "fold" => c.ret = fold(c.self, c.arg[1], used)
              /\ c.op = "rfold" => c.ret = rfold(c.self, c.arg[1], used)

\* A list of two elements was folded with two functions, and the same fold
\* with the second function missing has no implementation.
C25_Witness ==
    /\ Len(log) = 1
    /\ log[1].op = "fold"
    /\ log[1].self = <<I32(1), Bool(FALSE)>>
    /\ FnsOf(log[1]) = <<Closure("add_i32"), Closure("cond")>>
    /\ ~FoldDefined(log[1].self, "f32", FnList(<<Closure("add_i32")>>))
    /\ ~RFoldDefined(log[1].self, "f32", FnList(<<Closure("add_i32")>>))
    /\ ~MapDefined(log[1].self, FnList(<<Closure("add2")>>))

(***************************************************************************)
(* C26: for every list L, initial accumulator a and one shared folder f,   *)
(* stateless or stateful, rfold(L, a, f) gives the same result and the     *)
(* same sequence of folder invocations as fold(reverse(L), a, f): the      *)
(* folder is invoked exactly once per element, last element first.         *)
(***************************************************************************)
C26_RFoldIsFoldOfReverse ==
    \A c \in Range(log) :
        (c.op = "rfold" /\ c.arg[2].kind \in {"closure", "Folder"}) =>
            LET L     == c.self
                a     == c.arg[1]
                f     == c.arg[2]
                calls == rfold_invocations(L, a, f)
            IN  /\ FoldDefined(reverse(L), a.ty, f)
                /\ c.ret = fold(reverse(L), a, f)
                /\ calls = fold_invocations(reverse(L), a, f)
                /\ Len(calls) = Len(L)
                /\ \A i \in DOMAIN calls : calls[i].item = L[Len(L) + 1 - i]
                /\ L # Nil =>
                      LET last == calls[Len(calls)]
                      IN  c.ret = IF f.kind = "Folder"
                                  THEN fold_fn(last.folder, last.accumulator, last.item)[1]
                                  ELSE call(last.folder, last.accumulator, last.item)[1]

\* [1, 2, 3] has been folded from the right with the counting closure: it
\* weighs 3 once, 2 twice and 1 three times.
C26_Witness ==
    \E c \in Range(log) :
        /\ c.op = "rfold"
        /\ c.self = <<I32(1), I32(2), I32(3)>>
        /\ c.arg = <<I32(0), Closure("weigh")>>
        /\ c.ret = I32(10)
        /\ c.ret = fold(<<I32(3), I32(2), I32(1)>>, I32(0), Closure("weigh"))
        /\ c.ret # fold(c.self, I32(0), Closure("weigh"))

(***************************************************************************)
(* C27: after any sequence of structural operations the length is          *)
(* accounted for exactly.  append and prepend add 1; pop, pop_front and    *)
(* remove subtract 1 and are undefined on the empty list; reverse, map,    *)
(* to_ref, to_mut and shuffle keep the length; extend(A, B) has length     *)
(* len(A) + len(B); remove_many of m elements returns an extracted list of *)
(* length m and a remainder of length len(L) - m; is_empty() is true       *)
(* exactly when len() = 0.                                                 *)
(***************************************************************************)
\* The list the program owns after call j.
Owned(j) == IF j < Len(log) THEN log[j + 1].self ELSE list

\* What call j adds to the length of the list.
Added(c) ==
    CASE c.op \in {"append", "prepend"}         -> 1
      [] c.op \in {"pop", "pop_front", "remove"} -> 0 - 1
      [] c.op = "extend"                         -> HList_len(c.arg[1])
      [] c.op = "remove_many"                    -> 0 - HList_len(c.arg[2])
      [] OTHER                                   -> 0

RECURSIVE AddedUpTo(_)
AddedUpTo(j) == IF j = 0 THEN 0 ELSE AddedUpTo(j - 1) + Added(log[j])

C27_LengthAccounting ==
    /\ ~PopDefined(Nil) /\ ~PopFrontDefined(Nil)
    /\ \A T \in Types : RemoveIndices(Nil, T) = {}
    /\ is_empty(list) <=> HList_len(list) = 0
    /\ \A j \in DOMAIN log :
          LET c == log[j]
              n == HList_len(c.self)
          IN  /\ HList_len(Owned(j)) = HList_len(log[1].self) + AddedUpTo(j)
              /\ c.op \in {"append", "prepend"} =>
                     HList_len(c.ret) = n + 1 /\ Owned(j) = c.ret
              /\ c.op \in {"pop", "pop_front", "remove"} =>
                     n > 0 /\ HList_len(c.ret[2]) = n - 1 /\ Owned(j) = c.ret[2]
              /\ c.op \in {"reverse", "map", "shuffle"} =>
                     HList_len(c.ret) = n /\ Owned(j) = c.ret
              /\ c.op \in {"to_ref", "to_mut"} =>
                     HList_len(c.ret) = n /\ Owned(j) = c.self
              /\ c.op = "extend" =>
                     HList_len(c.ret) = n + HList_len(c.arg[1]) /\ Owned(j) = c.ret
              /\ c.op = "remove_many" =>
                     /\ HList_len(c.ret[1]) = HList_len(c.arg[2])
                     /\ HList_len(c.ret[2]) = n - HList_len(c.arg[2])
                     /\ Owned(j) = c.ret[2]
              /\ c.op = "is_empty" => (c.ret <=> n = 0)
              /\ c.op = "len" => c.ret = n /\ (is_empty(c.self) <=> c.ret = 0)

\* Two of the four elements of the documented list were taken out, and the
\* remainder of two was then popped down to one.
C27_Witness ==
    /\ Len(log) = 2
    /\ log[1].op = "remove_many"
    /\ log[1].self = DocList
    /\ Len(log[1].ret[1]) = 2
    /\ log[2].op = "pop"
    /\ Len(list) = 1
    /\ ~is_empty(list)

(***************************************************************************)
(* C28: from_iter pulls elements from the source one at a time, in order,  *)
(* and fails at the first violation.  With a source of m < n elements it   *)
(* fails with "not enough elements in the iterator" after taking exactly m *)
(* elements; with a source of m > n elements it fails with "too many       *)
(* elements in the iterator" after taking exactly n + 1 elements; it never *)
(* takes more than n + 1 elements from the source.                         *)
(***************************************************************************)
\* The elements a call of from_iter has taken from its source.
TakenFrom(c) == SubSeq(c.arg[1], 1, Len(c.arg[1]) - Len(c.ret.rest))

C28_FromIterTakes ==
    \A c \in Range(log) :
        c.op = "from_iter" =>
            LET n      == c.self
                source == c.arg[1]
                m      == Len(source)
                taken  == Len(TakenFrom(c))
            IN  /\ source = TakenFrom(c) \o c.ret.rest
                /\ taken <= n + 1
                /\ m < n => /\ c.ret.panic = "not enough elements in the iterator"
                            /\ taken = m
                /\ m > n => /\ c.ret.panic = "too many elements in the iterator"
                            /\ taken = n + 1
                /\ m = n => /\ c.ret.panic = ""
                            /\ taken = n
                            /\ c.ret.list = TakenFrom(c)

\* Ten elements were offered to a list of five slots: six were taken and
\* four are left in the source.
C28_Witness ==
    \E c \in Range(log) :
        /\ c.op = "from_iter"
        /\ c.self = 5
        /\ c.arg[1] = Repeat(I32(42), 10)
        /\ c.ret.panic = "too many elements in the iterator"
        /\ Len(c.ret.rest) = 4

(***************************************************************************)
(* C29: in every reachable state of the draining iterator the Option slots *)
(* are an emptied prefix followed by a populated suffix: no populated slot *)
(* precedes an empty slot, a slot once emptied is never populated again,   *)
(* and the reported length is the number of populated slots.               *)
(***************************************************************************)
Populated(slots) == {i \in DOMAIN slots : slots[i].some}

EmptiedThenPopulated(slots) ==
    \A i, k \in DOMAIN slots : (i < k /\ slots[i].some) => slots[k].some

C29_SlotsPrefixEmptied ==
    /\ EmptiedThenPopulated(iter)
    /\ (log # <<>> /\ ~IsNilIter) => len(iter) = Cardinality(Populated(iter))
    /\ \A j \in 2..Len(log) :
          LET before == log[j].self
              after  == IterAfter(j)
          IN  /\ EmptiedThenPopulated(before)
              /\ DOMAIN after = DOMAIN before
              /\ Populated(after) \subseteq Populated(before)
              /\ \A i \in Populated(after) : after[i] = before[i]
              /\ (log[j].op = "len" /\ ~IsNilIter) =>
                     log[j].ret = Cardinality(Populated(before))

\* One of three elements has been yielded: the first slot is empty, the
\* other two are populated, and the length reported is 2.
C29_Witness ==
    /\ Len(log) = 3
    /\ log[1].self = <<I32(1), I32(2), I32(3)>>
    /\ log[2].op = "next"
    /\ log[3].op = "len"
    /\ log[3].ret = 2
    /\ iter = <<None, Some(I32(2)), Some(I32(3))>>

(***************************************************************************)
(* C30: at every step of the walk of reverse over a list of n elements,    *)
(* with R the remainder not yet visited and D the list `done`, the reverse *)
(* of D followed by R is the original list and len(R) + len(D) = n; the    *)
(* walk starts with D empty, moves exactly one element from the head of R  *)
(* to the head of D at each step, and ends after exactly n steps with R    *)
(* empty and D as the result.                                              *)
(***************************************************************************)
C30_RewindWalk ==
    log # <<>> =>
      LET original == log[1].self
          n        == Len(original)
          last     == log[Len(log)]
      IN  /\ log[1].arg[1] = Nil
          /\ Len(log) <= n + 1
          /\ \A j \in DOMAIN log :
                LET R == log[j].self
                    D == log[j].arg[1]
                IN  /\ reverse(D) \o R = original
                    /\ Len(R) + Len(D) = n
                    /\ Len(D) = j - 1
                    /\ j > 1 => /\ R = Tail(log[j - 1].self)
                                /\ D = Cons(Head(log[j - 1].self), log[j - 1].arg[1])
                    /\ log[j].ret.some = last.ret.some
          /\ last.ret.some =>
                /\ Len(log) = n + 1
                /\ last.self = Nil
                /\ \A j \in DOMAIN log : log[j].ret = Some(last.arg[1])
                /\ list = last.arg[1]
                /\ list = reverse(original)
          /\ (~last.ret.some /\ last.self = Nil) => last.arg[1] = reverse(original)

\* The walk over the documented list of four elements has ended, after four
\* steps, with the list reversed.
C30_Witness ==
    /\ Len(log) = 5
    /\ log[1].self = DocList
    /\ log[3].self = <<Bool(TRUE), Str("hello world")>>
    /\ log[3].arg[1] = <<F32(2), I32(1)>>
    /\ log[5].ret = Some(<<Str("hello world"), Bool(TRUE), F32(2), I32(1)>>)
    /\ list = log[5].ret.val

====
